---- MODULE Spec2Model ----
(***************************************************************************)
(* A model of the generation-validation-caching pipeline of the dynamic    *)
(* agent factory: StateManager (utils.py), the code validators (utils.py), *)
(* DynamicAgentFactoryLLM (factory.py) and DynamicAgentFactory             *)
(* (dynamic_agent_factory.py).                                             *)
(***************************************************************************)
EXTENDS Integers, Sequences, FiniteSets, TLC

(***************************************************************************)
(* Bounds of the model.                                                    *)
(***************************************************************************)
\* operations the single caller of the sequential specification starts
MaxSeqOps == 2
\* operations each thread of the concurrent specifications starts
MaxConcOps == 1
\* times the process stops and is started again
MaxCrashes == 1

Threads == {1, 2}
Names == {"primary", "backup"}

(***************************************************************************)
(* Python values (what save_state is handed and load_state returns) and    *)
(* JSON values (what the file holds).  A value is a tagged record (s: a      *)
(* string payload, q: a sequence payload); a dict                          *)
(* is the sequence of its <<key, value>> items in insertion order.         *)
(***************************************************************************)
PStr(s) == [k |-> "str", s |-> s]
PInt(s) == [k |-> "int", s |-> s]
PList(q) == [k |-> "list", q |-> q]
PTuple(q) == [k |-> "tuple", q |-> q]
PDict(q) == [k |-> "dict", q |-> q]
\* a value json has no encoding for (a datetime, a set, a class)
PObject == [k |-> "object", s |-> "datetime"]
PNone == [k |-> "none", s |-> ""]

JStr(s) == [j |-> "string", s |-> s]
JNum(s) == [j |-> "number", s |-> s]
JArr(q) == [j |-> "array", q |-> q]
JObj(q) == [j |-> "object", q |-> q]
JNull == [j |-> "null", s |-> ""]
\* not a JSON value: the bytes of a file that holds none
JNothing == [j |-> "nothing", s |-> ""]

HasKey(d, key) == \E i \in 1..Len(d.q) : d.q[i][1] = key

DictGet(d, key, dflt) ==
    IF HasKey(d, key)
    THEN d.q[CHOOSE i \in 1..Len(d.q) : d.q[i][1] = key][2]
    ELSE dflt

\* d[key] = val: an existing key keeps its place, a new one goes last
DictSet(d, key, val) ==
    IF HasKey(d, key)
    THEN PDict([i \in 1..Len(d.q) |->
                  IF d.q[i][1] = key THEN <<key, val>> ELSE d.q[i]])
    ELSE PDict(Append(d.q, <<key, val>>))

\* datetime.now().isoformat() at clock value n
isoformat(n) == PStr("t" \o ToString(n))

\* json can encode p: no value of a type the encoder rejects occurs in it
RECURSIVE Serializable(_)
Serializable(p) ==
    CASE p.k \in {"str", "int", "none"} -> TRUE
      [] p.k \in {"list", "tuple"} ->
            \A i \in 1..Len(p.q) : Serializable(p.q[i])
      [] p.k = "dict" ->
            \A i \in 1..Len(p.q) : Serializable(p.q[i][2])
      [] OTHER -> FALSE

\* json.dump: a tuple is written as an array, a dict key as a string
RECURSIVE JsonEncode(_)
JsonEncode(p) ==
    CASE p.k = "str" -> JStr(p.s)
      [] p.k = "int" -> JNum(p.s)
      [] p.k = "none" -> JNull
      [] p.k \in {"list", "tuple"} ->
            JArr([i \in 1..Len(p.q) |-> JsonEncode(p.q[i])])
      [] p.k = "dict" ->
            JObj([i \in 1..Len(p.q) |->
                    <<p.q[i][1].s, JsonEncode(p.q[i][2])>>])
      [] OTHER -> JNothing

\* json.loads: an array is read as a list, an object as a dict with str keys
RECURSIVE JsonDecode(_)
JsonDecode(x) ==
    CASE x.j = "string" -> PStr(x.s)
      [] x.j = "number" -> PInt(x.s)
      [] x.j = "array" ->
            PList([i \in 1..Len(x.q) |-> JsonDecode(x.q[i])])
      [] x.j = "object" ->
            PDict([i \in 1..Len(x.q) |->
                     <<PStr(x.q[i][1]), JsonDecode(x.q[i][2])>>])
      [] OTHER -> PNone

(***************************************************************************)
(* File contents.  A file is a sequence of blocks; the text of a JSON      *)
(* value is written as two blocks, so that a file can hold the first block *)
(* only (a write that stopped) or blocks of two texts (two writers).       *)
(***************************************************************************)
Block(x, n) == [doc |-> x, part |-> n]
Text(x) == <<Block(x, 1), Block(x, 2)>>
\* a block of zero bytes, left where a writer wrote past the end of a file
Hole == Block(JNothing, 0)
\* the content of a path that names no file
Missing == <<Block(JNothing, 3)>>

\* json.loads accepts the content
ValidJson(c) ==
    /\ Len(c) = 2
    /\ c[1].part = 1
    /\ c[2].part = 2
    /\ c[1].doc = c[2].doc
    /\ c[1].doc.j # "nothing"

\* the file after `block` was written at block offset `pos`
WriteAt(c, pos, block) ==
    [i \in 1..(IF Len(c) > pos THEN Len(c) ELSE pos) |->
        IF i = pos THEN block
        ELSE IF i <= Len(c) THEN c[i] ELSE Hole]

(***************************************************************************)
(* State.  StateManager: the two paths' contents (files), the file each    *)
(* thread has open (fd: the path that names it now, or "orphan" once no    *)
(* path does), the Lock of each StateManager instance, each thread's place in    *)
(* save_state / load_state (pc), the dict it is saving (arg) and the       *)
(* OperationResult it got last (res).  History variables: pre (the two     *)
(* paths' contents when the running call took the lock), fault (the step   *)
(* of the running save that raised), last (each thread's last finished     *)
(* call) and crashInfo (the save a stop of the process interrupted).       *)
(***************************************************************************)
VARIABLES files, fd, lock, inst, pc, caller, arg, res, budget, now,
          crashes, pre, fault, last, crashInfo

smVars == <<files, fd, lock, inst, pc, caller, arg, res, budget, now,
            crashes, pre, fault, last, crashInfo>>

(***************************************************************************)
(* State of the validators and of the two factories: the code handed to a  *)
(* validator and the OperationResult it returned (code, validation),       *)
(* KeywordManager.keywords, DynamicAgentFactoryLLM.llm_cache, and of the   *)
(* last call of a factory its request (req), what it returned or raised    *)
(* (out) and, as history, the steps generate_agent went through (steps).   *)
(***************************************************************************)
VARIABLES code, validation, keywords, llm_cache, req, out, steps

\* KeywordManager.agents, DynamicAgentFactory.result_cache and the number
\* of calls of the factories so far
VARIABLES agents, result_cache, calls

\* the calls of the factories in one behaviour
MaxCalls == 2

\* the files of the temporary directories (scratch), the values uuid4()
\* has returned (used), each thread's call of _load_agent_class (loader) and
\* the number of these calls so far
VARIABLES scratch, used, loader, loads

ldVars == <<scratch, used, loader, loads>>

\* the calls of _load_agent_class in one behaviour
MaxLoads == 2

\* one Cache shared by the threads: its dictionary (ttl_cache), its lock
\* (the thread inside `with self._lock`, 0 when free), its ttl, the value of
\* time.time() (clock), each thread's call (cth), the latest set of each key
\* that no clear followed (latest) and the number of calls so far
VARIABLES ttl_cache, cache_lock, ttl, clock, cth, latest, cache_ops

cacheVars == <<ttl_cache, cache_lock, ttl, clock, cth, latest, cache_ops>>

\* the calls of the Cache in one behaviour, the largest ttl and the largest
\* value of the clock
MaxCacheOps == 3
MaxTTL == 1
MaxTime == 2

\* the KeywordManager objects' tables (km), the state file and its backup
\* (km_fs), the last call of a KeywordManager (km_res) and the number of
\* calls so far
VARIABLES km, km_fs, km_res, km_ops

\* the calls that the threads of the process make on manager 1
VARIABLES kth

kmVars == <<km, km_fs, km_res, km_ops, kth>>

\* the calls of the KeywordManagers in one behaviour
MaxKmOps == 3

\* the technologies that TechStackAnalyzer loads (registry), and of the
\* TriggerMapManager: self.triggers, the triggers among them that the code
\* or a call has defined (statics), its trigger_cache, whether it was
\* constructed, the result of its last call and the number of its calls
VARIABLES registry, triggers, statics, trigger_cache, tm_built, tm_res, tm_ops

\* trigger_map_state.json of the TriggerMapManager
VARIABLES tm_file

tmVars ==
    <<registry, triggers, statics, trigger_cache, tm_built, tm_res, tm_ops,
      tm_file>>

\* the calls of the TriggerMapManager in one behaviour
MaxTmOps == 4

\* the trigger_info handed to AgentValidator.validate together with code
VARIABLES av_trigger

avVars == <<av_trigger>>

\* the wrappers that retry puts around DynamicAgentFactory.run (1) and
\* around _generate_code (2), their parameters and the calls of run so far
VARIABLES rt, rt_par, rt_calls

rtVars == <<rt, rt_par, rt_calls>>

\* the calls of a wrapped run in one behaviour
MaxRetryCalls == 2

restVars == <<cacheVars, kmVars, tmVars, avVars, rtVars>>

coreVars ==
    <<code, validation, keywords, llm_cache, req, out, steps, agents,
      result_cache, calls, ldVars>>

plVars == <<coreVars, restVars>>

vars == <<smVars, plVars>>

Content(name) == files[name]

Exists(name) == files[name] # Missing

\* Path.rename(src -> dst): dst now names src's file; the file dst named
\* before has no name left, and open handles follow their file
RenameFiles(src, dst) == [n \in Names |-> IF n = dst THEN files[src]
                                          ELSE IF n = src THEN Missing ELSE files[n]]

RenameHandles(src, dst) == [t \in Threads |-> IF fd[t] = src THEN dst
                                              ELSE IF fd[t] = dst THEN "orphan" ELSE fd[t]]

\* Path.unlink(name)
UnlinkFiles(name) == [files EXCEPT ![name] = Missing]

UnlinkHandles(name) == [t \in Threads |-> IF fd[t] = name THEN "orphan" ELSE fd[t]]

\* a write through an open handle reaches the file the handle is on, which
\* is visible only while a path names it
WriteFiles(t, pos, block) ==
    IF fd[t] \in Names
    THEN [files EXCEPT ![fd[t]] = WriteAt(@, pos, block)]
    ELSE files

NoResult == [op |-> "none", raised |-> FALSE, success |-> FALSE,
             data |-> PNone, metadata |-> PNone, error |-> "none"]

PTrue == [k |-> "bool", s |-> "True"]

\* OperationResult(success=True, data=..., metadata=...)
OperationResult(op, data, metadata) ==
    [op |-> op, raised |-> FALSE, success |-> TRUE,
     data |-> data, metadata |-> metadata, error |-> "none"]

\* OperationResult(success=False, error=StateError(...))
StateErrorResult(op) ==
    [op |-> op, raised |-> FALSE, success |-> FALSE,
     data |-> PNone, metadata |-> PNone, error |-> "StateError"]

\* the call did not return: an exception left it
Raised(op) ==
    [op |-> op, raised |-> TRUE, success |-> FALSE,
     data |-> PNone, metadata |-> PNone, error |-> "exception"]

\* the document _ensure_state_file writes
EnsureDoc(n) ==
    PDict(<< <<PStr("data"), PDict(<<>>)>>,
             <<PStr("metadata"),
               PDict(<< <<PStr("created_at"), isoformat(n)>>,
                        <<PStr("version"), PStr("1.0")>> >>)>> >>)

\* state['metadata'] = {**state.get('metadata', {}), 'last_updated': now}
MetadataRaises(state) ==
    DictGet(state, PStr("metadata"), PDict(<<>>)).k # "dict"

WithLastUpdated(state, n) ==
    DictSet(state, PStr("metadata"),
            DictSet(DictGet(state, PStr("metadata"), PDict(<<>>)),
                    PStr("last_updated"), isoformat(n)))

\* load_state with data=state in place of data=state['data']
load_body_returns_document(c, readable) ==
    IF ~readable \/ c = Missing \/ ~ValidJson(c)
    THEN StateErrorResult("load")
    ELSE LET state == JsonDecode(c[1].doc)
         IN  IF state.k # "dict" \/ ~HasKey(state, PStr("data"))
             THEN StateErrorResult("load")
             ELSE OperationResult("load", state,
                                  DictGet(state, PStr("metadata"), PDict(<<>>)))

\* load_state with except ValueError in place of except Exception: a
\* missing or unreadable file raises past it
load_body_catches_less(c, readable) ==
    IF ~readable \/ c = Missing
    THEN Raised("load")
    ELSE IF ~ValidJson(c)
    THEN StateErrorResult("load")
    ELSE LET state == JsonDecode(c[1].doc)
         IN  IF state.k # "dict" \/ ~HasKey(state, PStr("data"))
             THEN StateErrorResult("load")
             ELSE OperationResult("load",
                                  DictGet(state, PStr("data"), PNone),
                                  DictGet(state, PStr("metadata"), PDict(<<>>)))

\* the body of load_state on the content read_text returned
load_body(c, readable) ==
    IF ~readable \/ c = Missing \/ ~ValidJson(c)
    THEN StateErrorResult("load")
    ELSE LET state == JsonDecode(c[1].doc)
         IN  IF state.k # "dict" \/ ~HasKey(state, PStr("data"))
             THEN StateErrorResult("load")
             ELSE OperationResult("load",
                                  DictGet(state, PStr("data"), PNone),
                                  DictGet(state, PStr("metadata"), PDict(<<>>)))

Release(t) == [lock EXCEPT ![inst[t]] = 0]

NoCall == [op |-> "none", ok |-> FALSE, state |-> PNone, fault |-> "none"]

NoCrash == [inSave |-> FALSE, pre |-> Missing, new |-> PNone]

\* the call is over: its locals and its result are the caller's to drop
Forget(t) ==
    /\ caller' = [caller EXCEPT ![t] = "user"]
    /\ arg' = [arg EXCEPT ![t] = PNone]
    /\ res' = [res EXCEPT ![t] = NoResult]
    /\ pre' = [pre EXCEPT ![t] = <<Missing, Missing>>]
    /\ fault' = [fault EXCEPT ![t] = "none"]

\* an exception inside the try block of save_state: the with-block closes
\* the file and control goes to the except clause
ToHandler(t, step) ==
    /\ pc' = [pc EXCEPT ![t] = "x_exists"]
    /\ fault' = [fault EXCEPT ![t] = step]
    /\ fd' = [fd EXCEPT ![t] = "none"]

(***************************************************************************)
(* StateManager.__init__ and _ensure_state_file                            *)
(***************************************************************************)
ensure_state_file(t) ==
    /\ pc[t] = "new"
    /\ IF ~Exists("primary")
       THEN /\ pc' = [pc EXCEPT ![t] = "s_acquire"]
            /\ arg' = [arg EXCEPT ![t] = EnsureDoc(now)]
            /\ caller' = [caller EXCEPT ![t] = "ensure"]
       ELSE /\ pc' = [pc EXCEPT ![t] = "idle"]
            /\ UNCHANGED <<arg, caller>>
    /\ UNCHANGED <<plVars, files, fd, lock, inst, res, budget, now, crashes, pre, fault,
                   last, crashInfo>>

(***************************************************************************)
(* StateManager.save_state, one action per step that touches the lock or   *)
(* the directory.                                                          *)
(***************************************************************************)
\* the dicts a caller saves: well-formed documents, documents json changes
\* on the way (a tuple, an int key), one json cannot encode, one whose
\* metadata is no mapping, one without the data key
GoodDoc ==
    PDict(<< <<PStr("data"), PDict(<< <<PStr("python"), PStr("active")>> >>)>> >>)

GoodDocWithMetadata ==
    PDict(<< <<PStr("data"),
               PDict(<< <<PStr("react"), PList(<<PStr("a"), PInt("1")>>)>> >>)>>,
             <<PStr("metadata"),
               PDict(<< <<PStr("last_updated"), PStr("stale")>>,
                        <<PStr("version"), PStr("1.0")>> >>)>> >>)

TupleDoc ==
    PDict(<< <<PStr("data"), PDict(<< <<PStr("k"), PTuple(<<PStr("a")>>)>> >>)>> >>)

IntKeyDoc ==
    PDict(<< <<PStr("data"), PDict(<< <<PInt("1"), PStr("a")>> >>)>> >>)

ObjectDoc ==
    PDict(<< <<PStr("data"), PDict(<< <<PStr("k"), PObject>> >>)>> >>)

ListMetadataDoc ==
    PDict(<< <<PStr("data"), PDict(<<>>)>>,
             <<PStr("metadata"), PList(<<PStr("x")>>)>> >>)

NoDataDoc ==
    PDict(<< <<PStr("keywords"), PDict(<<>>)>> >>)

SaveInputs == {GoodDoc, GoodDocWithMetadata, TupleDoc, IntKeyDoc, ObjectDoc,
               ListMetadataDoc, NoDataDoc}

\* the documents thread t saves in the concurrent specifications
ConcInput(t) == IF t = 1 THEN GoodDoc ELSE GoodDocWithMetadata

\* a caller calls save_state(state)
save_state(t, state) ==
    /\ pc[t] = "idle"
    /\ budget[t] > 0
    /\ budget' = [budget EXCEPT ![t] = @ - 1]
    /\ pc' = [pc EXCEPT ![t] = "s_acquire"]
    /\ arg' = [arg EXCEPT ![t] = state]
    /\ caller' = [caller EXCEPT ![t] = "user"]
    /\ crashInfo' = NoCrash
    /\ UNCHANGED <<plVars, files, fd, lock, inst, res, now, crashes, pre, fault, last>>

\* with self.lock:
SaveAcquire(t) ==
    /\ pc[t] = "s_acquire"
    /\ lock[inst[t]] = 0
    /\ lock' = [lock EXCEPT ![inst[t]] = t]
    /\ pre' = [pre EXCEPT ![t] = <<Content("primary"), Content("backup")>>]
    /\ fault' = [fault EXCEPT ![t] = "none"]
    /\ pc' = [pc EXCEPT ![t] = "s_exists"]
    /\ UNCHANGED <<plVars, files, fd, inst, caller, arg, res, budget, now, crashes,
                   last, crashInfo>>

\* if self.state_file.exists():
SaveExists(t) ==
    /\ pc[t] = "s_exists"
    /\ pc' = [pc EXCEPT ![t] = IF Exists("primary") THEN "s_rename" ELSE "s_meta"]
    /\ UNCHANGED <<plVars, files, fd, lock, inst, caller, arg, res, budget, now, crashes,
                   pre, fault, last, crashInfo>>

\* self.state_file.rename(backup_file)
SaveRename(t) ==
    /\ pc[t] = "s_rename"
    /\ IF ~Exists("primary")
       THEN /\ ToHandler(t, "rename")
            /\ UNCHANGED files
       ELSE /\ files' = RenameFiles("primary", "backup")
            /\ fd' = RenameHandles("primary", "backup")
            /\ pc' = [pc EXCEPT ![t] = "s_meta"]
            /\ UNCHANGED fault
    /\ UNCHANGED <<plVars, lock, inst, caller, arg, res, budget, now, crashes, pre,
                   last, crashInfo>>

\* state['metadata'] = {**(state.get('metadata', {})), 'last_updated': ...}
SaveMetadata(t) ==
    /\ pc[t] = "s_meta"
    /\ IF MetadataRaises(arg[t])
       THEN /\ ToHandler(t, "meta")
            /\ UNCHANGED arg
       ELSE /\ arg' = [arg EXCEPT ![t] = WithLastUpdated(@, now)]
            /\ pc' = [pc EXCEPT ![t] = "s_open"]
            /\ UNCHANGED <<fd, fault>>
    /\ UNCHANGED <<plVars, files, lock, inst, caller, res, budget, now, crashes, pre,
                   last, crashInfo>>

\* with self.state_file.open('w', encoding='utf-8') as f: creates or truncates
SaveOpen(t) ==
    /\ pc[t] = "s_open"
    /\ files' = [files EXCEPT !["primary"] = <<>>]
    /\ fd' = [fd EXCEPT ![t] = "primary"]
    /\ pc' = [pc EXCEPT ![t] = "s_dump1"]
    /\ UNCHANGED <<plVars, lock, inst, caller, arg, res, budget, now, crashes, pre, fault,
                   last, crashInfo>>

\* json.dump(state, f, indent=2), the first part of the text
SaveDump1(t) ==
    /\ pc[t] = "s_dump1"
    /\ files' = WriteFiles(t, 1, Block(JsonEncode(arg[t]), 1))
    /\ pc' = [pc EXCEPT ![t] = "s_dump2"]
    /\ UNCHANGED <<plVars, fd, lock, inst, caller, arg, res, budget, now, crashes, pre,
                   fault, last, crashInfo>>

\* json.dump, the rest of the text, and the end of the with block; the
\* encoder raises TypeError when it comes to a value it cannot encode
SaveDump2(t) ==
    /\ pc[t] = "s_dump2"
    /\ IF ~Serializable(arg[t])
       THEN /\ ToHandler(t, "dump2")
            /\ UNCHANGED files
       ELSE /\ files' = WriteFiles(t, 2, Block(JsonEncode(arg[t]), 2))
            /\ fd' = [fd EXCEPT ![t] = "none"]
            /\ pc' = [pc EXCEPT ![t] = "s_bexists"]
            /\ UNCHANGED fault
    /\ UNCHANGED <<plVars, lock, inst, caller, arg, res, budget, now, crashes, pre,
                   last, crashInfo>>

\* if backup_file.exists(): ... else return OperationResult(success=True, ...)
SaveBackupExists(t) ==
    /\ pc[t] = "s_bexists"
    /\ IF Exists("backup")
       THEN /\ pc' = [pc EXCEPT ![t] = "s_unlink"]
            /\ UNCHANGED <<res, lock>>
       ELSE /\ pc' = [pc EXCEPT ![t] = "s_ret"]
            /\ res' = [res EXCEPT ![t] =
                  OperationResult("save", PTrue, DictGet(arg[t], PStr("metadata"), PNone))]
            /\ lock' = Release(t)
    /\ UNCHANGED <<plVars, files, fd, inst, caller, arg, budget, now, crashes, pre, fault,
                   last, crashInfo>>

\* backup_file.unlink(); return OperationResult(success=True, ...)
SaveUnlink(t) ==
    /\ pc[t] = "s_unlink"
    /\ IF ~Exists("backup")
       THEN /\ ToHandler(t, "unlink")
            /\ UNCHANGED <<files, res, lock>>
       ELSE /\ files' = UnlinkFiles("backup")
            /\ fd' = UnlinkHandles("backup")
            /\ pc' = [pc EXCEPT ![t] = "s_ret"]
            /\ res' = [res EXCEPT ![t] =
                  OperationResult("save", PTrue, DictGet(arg[t], PStr("metadata"), PNone))]
            /\ lock' = Release(t)
            /\ UNCHANGED fault
    /\ UNCHANGED <<plVars, inst, caller, arg, budget, now, crashes, pre, last, crashInfo>>

\* an I/O error (disk full, permission) raised by the step the save is at
SaveStepFails(t) ==
    /\ pc[t] \in {"s_rename", "s_open", "s_dump1", "s_dump2", "s_unlink"}
    /\ ToHandler(t, pc[t])
    /\ UNCHANGED <<plVars, files, lock, inst, caller, arg, res, budget, now, crashes, pre,
                   last, crashInfo>>

\* except Exception: if backup_file.exists(): ... return OperationResult(success=False)
HandlerExists(t) ==
    /\ pc[t] = "x_exists"
    /\ IF Exists("backup")
       THEN /\ pc' = [pc EXCEPT ![t] = "x_rename"]
            /\ UNCHANGED <<res, lock>>
       ELSE /\ pc' = [pc EXCEPT ![t] = "s_ret"]
            /\ res' = [res EXCEPT ![t] = StateErrorResult("save")]
            /\ lock' = Release(t)
    /\ UNCHANGED <<plVars, files, fd, inst, caller, arg, budget, now, crashes, pre, fault,
                   last, crashInfo>>

\* the except clause without the rename of the backup
HandlerRenameLeft(t) ==
    /\ pc[t] = "x_rename"
    /\ res' = [res EXCEPT ![t] = StateErrorResult("save")]
    /\ pc' = [pc EXCEPT ![t] = "s_ret"]
    /\ lock' = Release(t)
    /\ UNCHANGED <<plVars, files, fd, inst, caller, arg, budget, now, crashes, pre, fault,
                   last, crashInfo>>

\* backup_file.rename(self.state_file): raises out of save_state when the
\* backup is gone by now
HandlerRename(t) ==
    /\ pc[t] = "x_rename"
    /\ IF ~Exists("backup")
       THEN /\ res' = [res EXCEPT ![t] = Raised("save")]
            /\ UNCHANGED <<files, fd>>
       ELSE /\ files' = RenameFiles("backup", "primary")
            /\ fd' = RenameHandles("backup", "primary")
            /\ res' = [res EXCEPT ![t] = StateErrorResult("save")]
    /\ pc' = [pc EXCEPT ![t] = "s_ret"]
    /\ lock' = Release(t)
    /\ UNCHANGED <<plVars, inst, caller, arg, budget, now, crashes, pre, fault,
                   last, crashInfo>>

\* the caller has the result of save_state
SaveReturn(t) ==
    /\ pc[t] = "s_ret"
    /\ pc' = [pc EXCEPT ![t] = "idle"]
    /\ last' = [last EXCEPT ![t] = [op |-> "save", ok |-> res[t].success,
                                     state |-> IF res[t].success THEN arg[t] ELSE PNone,
                                     fault |-> fault[t]]]
    /\ Forget(t)
    /\ UNCHANGED <<plVars, files, fd, lock, inst, budget, now, crashes, crashInfo>>

(***************************************************************************)
(* StateManager.load_state                                                 *)
(***************************************************************************)
\* a caller calls load_state()
load_state(t) ==
    /\ pc[t] = "idle"
    /\ budget[t] > 0
    /\ budget' = [budget EXCEPT ![t] = @ - 1]
    /\ pc' = [pc EXCEPT ![t] = "l_acquire"]
    /\ UNCHANGED <<plVars, files, fd, lock, inst, caller, arg, res, now, crashes, pre,
                   fault, last, crashInfo>>

\* load_state without the with self.lock
LoadAcquireUnlocked(t) ==
    /\ pc[t] = "l_acquire"
    /\ pre' = [pre EXCEPT ![t] = <<Content("primary"), Content("backup")>>]
    /\ pc' = [pc EXCEPT ![t] = "l_read"]
    /\ UNCHANGED <<plVars, files, fd, lock, inst, caller, arg, res, budget, now, crashes,
                   fault, last, crashInfo>>

\* with self.lock:
LoadAcquire(t) ==
    /\ pc[t] = "l_acquire"
    /\ lock[inst[t]] = 0
    /\ lock' = [lock EXCEPT ![inst[t]] = t]
    /\ pre' = [pre EXCEPT ![t] = <<Content("primary"), Content("backup")>>]
    /\ pc' = [pc EXCEPT ![t] = "l_read"]
    /\ UNCHANGED <<plVars, files, fd, inst, caller, arg, res, budget, now, crashes, fault,
                   last, crashInfo>>

\* content = self.state_file.read_text(...) and the rest of the try block
LoadRead(t) ==
    /\ pc[t] = "l_read"
    /\ res' = [res EXCEPT ![t] = load_body(Content("primary"), TRUE)]
    /\ lock' = Release(t)
    /\ pc' = [pc EXCEPT ![t] = "l_ret"]
    /\ UNCHANGED <<plVars, files, fd, inst, caller, arg, budget, now, crashes, pre, fault,
                   last, crashInfo>>

\* read_text raises: the file cannot be read (permission, not utf-8)
LoadUnreadable(t) ==
    /\ pc[t] = "l_read"
    /\ Exists("primary")
    /\ res' = [res EXCEPT ![t] = load_body(Content("primary"), FALSE)]
    /\ lock' = Release(t)
    /\ pc' = [pc EXCEPT ![t] = "l_ret"]
    /\ fault' = [fault EXCEPT ![t] = "read"]
    /\ UNCHANGED <<plVars, files, fd, inst, caller, arg, budget, now, crashes, pre,
                   last, crashInfo>>

\* the caller has the result of load_state
LoadReturn(t) ==
    /\ pc[t] = "l_ret"
    /\ pc' = [pc EXCEPT ![t] = "idle"]
    /\ Forget(t)
    /\ last' = [last EXCEPT ![t] = [op |-> "load", ok |-> res[t].success,
                                     state |-> PNone, fault |-> fault[t]]]
    /\ crashInfo' = NoCrash
    /\ UNCHANGED <<plVars, files, fd, lock, inst, budget, now, crashes>>

(***************************************************************************)
(* The environment: the process stopping and starting again.  The clock    *)
(* (now) stands still: no step of the StateManager compares two times.     *)
(***************************************************************************)
InSave(t) ==
    pc[t] \in {"s_exists", "s_rename", "s_meta", "s_open", "s_dump1", "s_dump2",
               "s_bexists", "s_unlink", "x_exists", "x_rename"}

\* the process stops where it is; what is on disk stays, the locks and the
\* open files are gone, and the program is started again
Crash ==
    /\ pc[1] # "new"
    /\ crashes < MaxCrashes
    /\ crashes' = crashes + 1
    /\ pc' = [pc EXCEPT ![1] = "new"]
    /\ lock' = [i \in DOMAIN lock |-> 0]
    /\ fd' = [t \in Threads |-> "none"]
    /\ Forget(1)
    /\ last' = [t \in Threads |-> NoCall]
    /\ crashInfo' = IF InSave(1) /\ caller[1] = "user" /\ fault[1] = "none"
                    THEN [inSave |-> TRUE, pre |-> pre[1][1], new |-> arg[1]]
                    ELSE NoCrash
    /\ UNCHANGED <<plVars, files, inst, budget, now>>

(***************************************************************************)
(* Code strings and the validators (utils.py, factory.py).  A str is the   *)
(* sequence of its fragments: a fragment is a run of characters that the   *)
(* patterns and markers below treat as one piece ("os", ".", "(", " ").    *)
(***************************************************************************)
\* fragments of the code strings handed to CodeValidator
MaxCodeLen == 4

PText(q) == [k |-> "str", q |-> q]

\* sub in text
Contains(q, sub) ==
    \E i \in 0..(Len(q) - Len(sub)) :
        \A j \in 1..Len(sub) : q[i + j] = sub[j]

\* the fragments \s matches
WS == {" ", "\n"}

\* items of a regular expression: x, x* and x? over a class of fragments
Lit(f) == [c |-> {f}, m |-> "1"]
Star(class) == [c |-> class, m |-> "*"]
Opt(f) == [c |-> {f}, m |-> "?"]

\* the items of re from the i-th on match q at position j
RECURSIVE MatchAt(_, _, _, _)
MatchAt(re, i, q, j) ==
    IF i > Len(re) THEN TRUE
    ELSE LET here == j <= Len(q) /\ q[j] \in re[i].c
         IN  CASE re[i].m = "1" -> here /\ MatchAt(re, i + 1, q, j + 1)
               [] re[i].m = "?" ->
                    \/ here /\ MatchAt(re, i + 1, q, j + 1)
                    \/ MatchAt(re, i + 1, q, j)
               [] OTHER ->
                    \/ here /\ MatchAt(re, i, q, j + 1)
                    \/ MatchAt(re, i + 1, q, j)

\* re.search(pattern, code) is not None
re_search(re, q) == \E j \in 1..(Len(q) + 1) : MatchAt(re, 1, q, j)

\* CodeValidator.forbidden_patterns, in the order of the list
forbidden_patterns ==
    << [pattern |-> "os\\s*\\.\\s*system",
        re |-> <<Lit("os"), Star(WS), Lit("."), Star(WS), Lit("system")>>,
        description |-> "System command execution"],
       [pattern |-> "subprocess",
        re |-> <<Lit("subprocess")>>,
        description |-> "Subprocess execution"],
       [pattern |-> "eval\\s*\\(",
        re |-> <<Lit("eval"), Star(WS), Lit("(")>>,
        description |-> "Code evaluation"],
       [pattern |-> "exec\\s*\\(",
        re |-> <<Lit("exec"), Star(WS), Lit("(")>>,
        description |-> "Code execution"],
       [pattern |-> "__import__",
        re |-> <<Lit("__import__")>>,
        description |-> "Dynamic imports"],
       [pattern |-> "open\\s*\\(",
        re |-> <<Lit("open"), Star(WS), Lit("(")>>,
        description |-> "File operations"],
       [pattern |-> "socket\\.",
        re |-> <<Lit("socket"), Lit(".")>>,
        description |-> "Network operations"],
       [pattern |-> "requests?\\.",
        re |-> <<Lit("request"), Opt("s"), Lit(".")>>,
        description |-> "HTTP requests"],
       [pattern |-> "urllib",
        re |-> <<Lit("urllib")>>,
        description |-> "URL operations"] >>

\* what a validator returns (exc = "none") or the exception that leaves it
NoDetails == [key |-> "", val |-> <<>>]

NoValidation ==
    [exc |-> "none", success |-> FALSE, message |-> "not called",
     details |-> NoDetails]

ValidationOk ==
    [exc |-> "none", success |-> TRUE, message |-> "", details |-> NoDetails]

\* OperationResult(success=False, error=ValidationError(message, details))
ValidationFailed(message, details) ==
    [exc |-> "none", success |-> FALSE, message |-> message,
     details |-> details]

ValidatorRaises(exc, message) ==
    [exc |-> exc, success |-> FALSE, message |-> message,
     details |-> NoDetails]

\* the patterns re.search finds in the text, by their place in the list
Matching(q) ==
    {i \in 1..Len(forbidden_patterns) : re_search(forbidden_patterns[i].re, q)}

\* CodeValidator.validate with the loop leaving out the first pattern
CodeValidator_skips_first(c) ==
    IF c.k # "str"
    THEN ValidationFailed("Validation failed", NoDetails)
    ELSE LET hits == Matching(c.q) \ {1}
         IN  IF hits = {} THEN ValidationOk
             ELSE LET first == CHOOSE i \in hits : \A h \in hits : i <= h
                  IN  ValidationFailed(
                          "Security violation: "
                              \o forbidden_patterns[first].description,
                          [key |-> "pattern",
                           val |-> <<forbidden_patterns[first].pattern>>])

\* CodeValidator.validate(code)
CodeValidator_validate(c) ==
    IF c.k # "str"
    THEN \* re.search raises TypeError, the except clause returns
         ValidationFailed("Validation failed", NoDetails)
    ELSE LET hits == Matching(c.q)
         IN  IF hits = {} THEN ValidationOk
             ELSE LET first == CHOOSE i \in hits : \A h \in hits : i <= h
                  IN  ValidationFailed(
                          "Security violation: "
                              \o forbidden_patterns[first].description,
                          [key |-> "pattern",
                           val |-> <<forbidden_patterns[first].pattern>>])

\* StructureValidator.required_elements of AgentValidator, in dict order
required_elements ==
    << [element |-> <<"class">>, description |-> "class definition"],
       [element |-> <<"MicroAgent">>,
        description |-> "MicroAgent inheritance"],
       [element |-> <<"def", " ", "run">>, description |-> "run method"],
       [element |-> <<"def", " ", "__init__">>,
        description |-> "constructor"],
       [element |-> <<"super", "(", ")", ".", "__init__">>,
        description |-> "parent initialization"] >>

\* the descriptions of the elements that do not occur in the text, in order
RECURSIVE MissingFrom(_, _, _)
MissingFrom(q, elems, i) ==
    IF i > Len(elems) THEN <<>>
    ELSE (IF Contains(q, elems[i].element) THEN <<>>
          ELSE <<elems[i].description>>) \o MissingFrom(q, elems, i + 1)

\* StructureValidator.validate with a loop that stops at the first absent
\* element
StructureValidator_first_only(c) ==
    IF c.k # "str"
    THEN ValidatorRaises("TypeError", "argument is not iterable")
    ELSE LET missing_elements == MissingFrom(c.q, required_elements, 1)
         IN  IF missing_elements # <<>>
             THEN ValidationFailed("Missing required elements",
                                   [key |-> "missing",
                                    val |-> <<missing_elements[1]>>])
             ELSE ValidationOk

\* StructureValidator.validate(code)
StructureValidator_validate(c) ==
    IF c.k # "str"
    THEN ValidatorRaises("TypeError", "argument is not iterable")
    ELSE LET missing_elements == MissingFrom(c.q, required_elements, 1)
         IN  IF missing_elements # <<>>
             THEN ValidationFailed("Missing required elements",
                                   [key |-> "missing",
                                    val |-> missing_elements])
             ELSE ValidationOk

(***************************************************************************)
(* The trigger catalog (triggers.py) and AgentValidator (factory.py).      *)
(***************************************************************************)
TriggerInfo(key, class_name, required_imports) ==
    [key |-> key, class_name |-> class_name,
     required_imports |-> required_imports]

\* no trigger_info
NoTriggerInfo == TriggerInfo(<<>>, "", <<>>)

\* TRIGGER_MAP in the order of its keys
TRIGGER_MAP ==
    << TriggerInfo(<<"python">>, "PythonAnalyzer", <<"ast", "pylint">>),
       TriggerInfo(<<"react">>, "ReactAnalyzer", <<"esprima", "eslint">>),
       TriggerInfo(<<"node">>, "NodeAnalyzer", <<"acorn", "eslint">>),
       TriggerInfo(<<"sql">>, "SQLAnalyzer", <<"sqlparse", "sqlalchemy">>),
       TriggerInfo(<<"ci", "/", "cd">>, "CICDAnalyzer",
                   <<"yaml", "requests">>),
       TriggerInfo(<<"github">>, "GitHubAnalyzer", <<"requests", "github">>),
       TriggerInfo(<<"gitlab">>, "GitLabAnalyzer", <<"requests", "gitlab">>),
       TriggerInfo(<<"pull_requests">>, "PullRequestAnalyzer",
                   <<"requests", "github", "gitlab">>),
       TriggerInfo(<<"deployments">>, "DeploymentAnalyzer",
                   <<"yaml", "requests">>),
       TriggerInfo(<<"tailwind">>, "TailwindAnalyzer",
                   <<"cssutils", "tailwindcss">>) >>

TriggerKeys == [i \in 1..Len(TRIGGER_MAP) |-> TRIGGER_MAP[i].key]

ClassNames == {TRIGGER_MAP[i].class_name : i \in 1..Len(TRIGGER_MAP)}

\* tech in TRIGGER_MAP
InTriggerMap(tech) == \E i \in 1..Len(TRIGGER_MAP) : TRIGGER_MAP[i].key = tech

\* TRIGGER_MAP[tech]
TriggerOf(tech) ==
    TRIGGER_MAP[CHOOSE i \in 1..Len(TRIGGER_MAP) : TRIGGER_MAP[i].key = tech]

\* the names bound at module level of factory.py (imports and definitions)
factory_globals ==
    {"os", "uuid", "inspect", "importlib", "Dict", "Optional", "Type", "Any",
     "Tuple", "List", "dataclass", "datetime", "logging", "Path",
     "MicroAgent", "get_llm", "LLM_PROVIDER", "LLM_MODEL_NAME", "LLM_API_KEY",
     "LLM_CONFIG", "TRIGGER_MAP", "TriggerInfo", "logger", "BaseError",
     "ValidationError", "StateError", "OperationResult", "Cache",
     "StateManager", "retry", "CodeValidator", "StructureValidator",
     "monitor_performance", "AgentGenerationError", "GenerationResult",
     "AgentValidator", "DynamicAgentFactoryLLM"}

\* the attributes of an AgentValidator instance
AgentValidator_attributes ==
    {"code_validator", "structure_validator", "validate", "_validate_imports"}

\* the required imports neither "import x" nor "from x" names, in order
RECURSIVE missing_imports(_, _, _)
missing_imports(q, required_imports, i) ==
    IF i > Len(required_imports) THEN <<>>
    ELSE (IF \/ Contains(q, <<"import", " ", required_imports[i]>>)
             \/ Contains(q, <<"from", " ", required_imports[i]>>)
          THEN <<>>
          ELSE <<required_imports[i]>>)
         \o missing_imports(q, required_imports, i + 1)

\* AgentValidator._validate_imports: its first statement reads time.time()
validate_imports(c, required_imports) ==
    IF "time" \notin factory_globals
    THEN ValidatorRaises("NameError", "name 'time' is not defined")
    ELSE LET missing == missing_imports(c.q, required_imports, 1)
         IN  IF missing # <<>>
             THEN ValidationFailed("Missing required imports",
                                   [key |-> "missing_imports",
                                    val |-> missing])
             ELSE ValidationOk

\* AgentValidator.validate(code_str, trigger_info)
AgentValidator_validate(c, trigger_info) ==
    LET security_result == CodeValidator_validate(c)
        structure_result == StructureValidator_validate(c)
        import_result == validate_imports(c, trigger_info.required_imports)
    IN  IF ~security_result.success THEN security_result
        ELSE IF structure_result.exc # "none" \/ ~structure_result.success
        THEN structure_result
        ELSE IF /\ trigger_info.required_imports # <<>>
                /\ (import_result.exc # "none" \/ ~import_result.success)
        THEN import_result
        ELSE ValidationOk

(***************************************************************************)
(* DynamicAgentFactoryLLM (factory.py).                                    *)
(***************************************************************************)
\* str.lower() of a fragment
LowerFragment(f) ==
    CASE f = "PYTHON" -> "python"
      [] f = "Python" -> "python"
      [] f = "React" -> "react"
      [] f = "CI" -> "ci"
      [] f = "PythonAnalyzer" -> "pythonanalyzer"
      [] OTHER -> f

lower(q) == [i \in 1..Len(q) |-> LowerFragment(q[i])]

\* what self.llm.chat does: it raises, or its response has this content
Behaviours == {"raises", "valid", "unsafe", "stub", "empty", "wrong_base"}

ImportLines(required_imports) ==
    IF required_imports = <<>> THEN <<>>
    ELSE <<"import", " ", required_imports[1], "\n",
           "import", " ", required_imports[2], "\n">>

AgentBody ==
    <<"def", " ", "__init__", "(", ")", ":", "super", "(", ")", ".",
      "__init__", "(", ")", "\n", "def", " ", "run", "(", ")", ":", "x">>

\* a module that defines class_name(base) with __init__ and run
AgentCode(trigger_info, base) ==
    ImportLines(trigger_info.required_imports)
        \o <<"class", " ", trigger_info.class_name, "(", base, ")", ":", "\n">>
        \o AgentBody

\* response.content of a chat that answers for trigger_info
LLMContent(behaviour, trigger_info) ==
    CASE behaviour = "valid" -> PText(AgentCode(trigger_info, "MicroAgent"))
      [] behaviour = "unsafe" ->
            PText(AgentCode(trigger_info, "MicroAgent")
                      \o <<"\n", "os", ".", "system", "(", "x", ")">>)
      [] behaviour = "stub" -> PText(<<"print", "(", "x", ")">>)
      [] behaviour = "wrong_base" -> PText(AgentCode(trigger_info, "object"))
      [] OTHER -> PText(<<>>)

\* bool(v) of a cached value
Truthy(v) == v.k = "str" /\ v.q # <<>>

\* OperationResult(success, data, metadata={"cache_hit": ...}) of _generate_code
CodeResult(success, data, cache_hit) ==
    [k |-> "OperationResult", success |-> success, data |-> data,
     cache_hit |-> cache_hit]

\* the body of _generate_code(trigger_info): the OperationResult it returns
\* (a failed one holds a CodeGenerationError), the llm_cache it leaves and
\* the calls of the client it made; the key of the cache is a function of
\* the trigger.  The whole body is inside try / except Exception, so no
\* exception leaves it (exc = "none").
generate_code(trigger_info, behaviour, cache) ==
    LET cached_code == cache[trigger_info.class_name]
        content == LLMContent(behaviour, trigger_info)
    IN  IF Truthy(cached_code)
        THEN [exc |-> "none", res |-> CodeResult(TRUE, cached_code, TRUE),
              cache |-> cache, steps |-> <<>>]
        ELSE IF behaviour = "raises"
        THEN [exc |-> "none", res |-> CodeResult(FALSE, PNone, FALSE),
              cache |-> cache, steps |-> <<"llm.chat">>]
        ELSE [exc |-> "none", res |-> CodeResult(TRUE, content, FALSE),
              cache |-> [cache EXCEPT ![trigger_info.class_name] = content],
              steps |-> <<"llm.chat">>]

\* @retry(max_attempts=3, delay=1.0, backoff=2.0), delays in seconds
max_attempts == 3
delay == 1
backoff == 2

\* time.sleep(current_delay) as a step
Sleep(current_delay) == "time.sleep " \o ToString(current_delay)

\* the wrapper of retry around _generate_code: after the body gave g in
\* try number attempt + 1, it returns what the body returned, or sleeps
\* and runs the body again, or raises the last exception
RECURSIVE retry_generate_code(_, _, _, _, _, _)
retry_generate_code_next(trigger_info, behaviour, g, attempt, current_delay, log) ==
    IF g.exc = "none" \/ attempt + 1 >= max_attempts
    THEN [g EXCEPT !.steps = log \o g.steps]
    ELSE retry_generate_code(trigger_info, behaviour, g.cache, attempt + 1,
                             current_delay * backoff,
                             log \o g.steps \o <<Sleep(current_delay)>>)

retry_generate_code(trigger_info, behaviour, cache, attempt, current_delay, log) ==
    retry_generate_code_next(trigger_info, behaviour,
                             generate_code(trigger_info, behaviour, cache),
                             attempt, current_delay, log)

\* what a factory call gives back: a GenerationResult or output dict
\* (exc = "none"), or the exception that leaves it
Returned(agent_class, status, error, error_type, details) ==
    [exc |-> "none", agent_class |-> agent_class, status |-> status,
     error |-> error, error_type |-> error_type, details |-> details]

Raises(exc, message) ==
    [exc |-> exc, agent_class |-> "None", status |-> "raised",
     error |-> message, error_type |-> exc, details |-> NoDetails]

NoOutput == Returned("None", "not called", "", "", NoDetails)

\* the module defines name as a class / as a class derived from MicroAgent
DefinesClass(q, name) ==
    \/ Contains(q, <<"class", " ", name, "(">>)
    \/ Contains(q, <<"class", " ", name, ":">>)

DefinesAgent(q, name) ==
    Contains(q, <<"class", " ", name, "(", "MicroAgent", ")">>)

\* the brackets of a source text balance, depth being the number of those
\* open at fragment i: what compile() needs of the texts modelled here
RECURSIVE Balanced(_, _, _)
Balanced(q, i, depth) ==
    IF i > Len(q) THEN depth = 0
    ELSE IF q[i] = "(" THEN Balanced(q, i + 1, depth + 1)
    ELSE IF q[i] = ")" THEN depth > 0 /\ Balanced(q, i + 1, depth - 1)
    ELSE Balanced(q, i + 1, depth)

\* an exception on its way out of a method, error_type being the one of a
\* BaseError; and no exception
Exception(exc, message, error_type) ==
    [exc |-> exc, message |-> message, error_type |-> error_type]

NoException == Exception("none", "", "")

\* lines 298-313 of _load_agent_class on the source text q of the scratch
\* file: the exception of exec_module (the text does not compile, or raises
\* at module level), of getattr or of the issubclass check
import_module(q, trigger_info) ==
    IF ~Balanced(q, 1, 0)
    THEN Exception("SyntaxError", "invalid syntax", "")
    ELSE IF Len(q) > 0 /\ q[1] = "raise"
    THEN Exception("RuntimeError", "raise", "")
    ELSE IF ~DefinesClass(q, trigger_info.class_name)
    THEN Exception("AttributeError", "AttributeError", "")
    ELSE IF ~DefinesAgent(q, trigger_info.class_name)
    THEN Exception("AgentGenerationError",
                   "Generated class does not inherit from MicroAgent",
                   "ClassValidationError")
    ELSE NoException

except_Exception_passes_own(e, trigger_info) ==
    IF e.exc = "none"
    THEN Returned(trigger_info.class_name, "loaded", "", "", NoDetails)
    ELSE IF e.exc = "AgentGenerationError"
    THEN [Raises(e.exc, e.message) EXCEPT !.error_type = e.error_type]
    ELSE [Raises("AgentGenerationError",
                 "Class loading failed: " \o e.message)
             EXCEPT !.error_type = "ClassLoadingError"]

\* how _load_agent_class ends when its try block ended with e: return
\* agent_cls, or the handler of except Exception, which raises an
\* AgentGenerationError of type ClassLoadingError for every exception
except_Exception(e, trigger_info) ==
    IF e.exc = "none"
    THEN Returned(trigger_info.class_name, "loaded", "", "", NoDetails)
    ELSE [Raises("AgentGenerationError",
                 "Class loading failed: " \o e.message)
             EXCEPT !.error_type = "ClassLoadingError"]

\* _load_agent_class(code_str, trigger_info) run without interruption:
\* write_text raises TypeError for what is not a str
load_agent_class(code_str, trigger_info) ==
    IF code_str.k # "str"
    THEN except_Exception(Exception("TypeError", "TypeError", ""),
                          trigger_info)
    ELSE except_Exception(import_module(code_str.q, trigger_info),
                          trigger_info)

\* the try block of generate_agent, g being what the call of
\* _generate_code gave: an exception of it leaves generate_agent unless it
\* is an AgentGenerationError
generate_agent_try(trigger_info, g) ==
    IF g.exc # "none"
    THEN [res |-> IF g.exc = "AgentGenerationError"
                  THEN Returned("None", "error", "Code generation failed",
                                "CodeGenerationError", NoDetails)
                  ELSE Raises(g.exc, "Code generation failed"),
          cache |-> g.cache, gen |-> PNone,
          steps |-> <<"generate_code">> \o g.steps]
    ELSE IF "validate_security" \notin AgentValidator_attributes
    THEN [res |-> Raises("AttributeError",
              "'AgentValidator' object has no attribute 'validate_security'"),
          cache |-> g.cache, gen |-> g.res,
          steps |-> <<"generate_code">> \o g.steps]
    ELSE IF "validate_structure" \notin AgentValidator_attributes
    THEN [res |-> Raises("AttributeError",
              "'AgentValidator' object has no attribute 'validate_structure'"),
          cache |-> g.cache, gen |-> g.res,
          steps |-> <<"generate_code">> \o g.steps
                        \o <<"validate_security">>]
    ELSE IF load_agent_class(g.res, trigger_info).exc = "AgentGenerationError"
    THEN \* except AgentGenerationError
         [res |-> Returned("None", "error",
                           load_agent_class(g.res, trigger_info).error,
                           "ClassLoadingError", NoDetails),
          cache |-> g.cache, gen |-> g.res,
          steps |-> <<"generate_code">> \o g.steps
                        \o <<"validate_security", "validate_structure",
                             "load_agent_class">>]
    ELSE [res |-> Returned(trigger_info.class_name, "success", "", "",
                           NoDetails),
          cache |-> g.cache, gen |-> g.res,
          steps |-> <<"generate_code">> \o g.steps
                        \o <<"validate_security", "validate_structure",
                             "load_agent_class">>]

\* generate_agent(tech, options): what it returns or raises (res), the
\* llm_cache it leaves, the OperationResult of _generate_code (gen, which
\* is what the code names code_str) and the steps it went through
generate_agent(tech, behaviour, cache) ==
    IF ~InTriggerMap(tech)
    THEN [res |-> Returned("None", "error", "Unknown technology", "",
                           NoDetails),
          cache |-> cache, gen |-> PNone, steps |-> <<>>]
    ELSE generate_agent_try(
             TriggerOf(tech),
             retry_generate_code(TriggerOf(tech), behaviour, cache, 0, delay,
                                 <<>>))

\* the data handed to run: with or without the key technology_keyword
Data(has, kw) == [has |-> has, kw |-> kw]

Request(op, data, behaviour, gen) ==
    [op |-> op, data |-> data, llm |-> behaviour, gen |-> gen]

NoRequest == Request("none", Data(FALSE, PNone), "raises", PNone)

\* the try block of DynamicAgentFactoryLLM.run around generate_agent
\* a handler that reports the error status without a message
run_try_drops_message(result) ==
    IF result.res.exc # "none"
    THEN [result EXCEPT !.res = Returned("None", "error", "", "", NoDetails)]
    ELSE result

\* the try block of DynamicAgentFactoryLLM.run around generate_agent
run_try(result) ==
    IF result.res.exc # "none"
    THEN \* except Exception
         [result EXCEPT !.res =
             Returned("None", "error",
                      "Unexpected error: " \o result.res.error,
                      "", NoDetails)]
    ELSE result

\* DynamicAgentFactoryLLM.run(data): what it returns or raises, with the
\* llm_cache, the OperationResult of _generate_code and the steps
llm_run(data, behaviour, cache) ==
    IF ~data.has
    THEN [res |-> Raises("KeyError", "'technology_keyword'"),
          cache |-> cache, gen |-> PNone, steps |-> <<>>]
    ELSE IF data.kw.k # "str"
    THEN [res |-> Raises("AttributeError", "object has no attribute 'lower'"),
          cache |-> cache, gen |-> PNone, steps |-> <<>>]
    ELSE run_try(generate_agent(lower(data.kw.q), behaviour, cache))

\* a caller calls DynamicAgentFactoryLLM.run(data)
DynamicAgentFactoryLLM_run(data, behaviour) ==
    /\ calls < MaxCalls
    /\ \E r \in {llm_run(data, behaviour, llm_cache)} :
            /\ calls' = calls + 1
            /\ out' = r.res
            /\ llm_cache' = r.cache
            /\ steps' = r.steps
            /\ req' = Request("DynamicAgentFactoryLLM.run", data, behaviour, r.gen)
            /\ UNCHANGED restVars
            /\ UNCHANGED <<smVars, code, validation, keywords, agents,
                           result_cache, ldVars>>

\* a caller calls DynamicAgentFactoryLLM.generate_agent(tech)
DynamicAgentFactoryLLM_generate_agent(tech, behaviour) ==
    /\ calls < MaxCalls
    /\ \E r \in {generate_agent(tech, behaviour, llm_cache)} :
            /\ calls' = calls + 1
            /\ out' = r.res
            /\ llm_cache' = r.cache
            /\ steps' = r.steps
            /\ req' = Request("generate_agent", Data(TRUE, PText(tech)),
                              behaviour, r.gen)
            /\ UNCHANGED restVars
            /\ UNCHANGED <<smVars, code, validation, keywords, agents,
                           result_cache, ldVars>>

(***************************************************************************)
(* KeywordManager.detect_keyword (keyword_manager.py) and                  *)
(* DynamicAgentFactory (dynamic_agent_factory.py).                         *)
(***************************************************************************)
\* the fragments \w does not match
Separators == {" ", "\n", "/", ".", "(", ")", ":"}

\* set(re.findall(r'\w+', text)): the maximal runs of word fragments
RECURSIVE findall_words(_, _, _)
findall_words(q, i, cur) ==
    LET done == IF cur = "" THEN {} ELSE {cur}
    IN  IF i > Len(q) THEN done
        ELSE IF q[i] \in Separators
        THEN done \cup findall_words(q, i + 1, "")
        ELSE findall_words(q, i + 1, cur \o q[i])

\* len(input_words & keyword_words)
overlap(input_words, keyword) ==
    Cardinality(input_words \cap findall_words(lower(keyword), 1, ""))

NoKeyword == [found |-> FALSE, keyword |-> <<>>]

\* the last keyword of the largest overlap
best_match_last(kws, ov) ==
    LET matches == {i \in 1..Len(kws) : ov[i] > 0}
    IN  IF matches = {} THEN NoKeyword
        ELSE [found |-> TRUE,
              keyword |-> kws[CHOOSE i \in matches :
                                 \A m \in matches :
                                    \/ ov[m] < ov[i]
                                    \/ ov[m] = ov[i] /\ m <= i]]

\* max(matches, key=overlap)[0]: the first keyword of the largest overlap,
\* ov[i] being the overlap of the i-th keyword
best_match(kws, ov) ==
    LET matches == {i \in 1..Len(kws) : ov[i] > 0}
    IN  IF matches = {} THEN NoKeyword
        ELSE [found |-> TRUE,
              keyword |-> kws[CHOOSE i \in matches :
                                 \A m \in matches :
                                    \/ ov[m] < ov[i]
                                    \/ ov[m] = ov[i] /\ i <= m]]

\* the scoring loop of detect_keyword over the keywords in dict order
score_keywords(input_words, kws) ==
    CHOOSE best \in
        {best_match(kws, ov) :
            ov \in {[i \in 1..Len(kws) |-> overlap(input_words, kws[i])]}} :
        TRUE

\* detect_keyword(input_text)
detect_keyword(input_text, kws) ==
    score_keywords(findall_words(lower(input_text), 1, ""), kws)

\* str.strip() leaves nothing
Blank(q) == \A i \in 1..Len(q) : q[i] \in WS

validate_input_accepts_blank(data) ==
    IF ~data.has
    THEN ValidationFailed("Missing required input: technology_keyword",
                          [key |-> "input_data", val |-> <<>>])
    ELSE IF data.kw.k # "str"
    THEN ValidationFailed("technology_keyword must be a string",
                          [key |-> "type", val |-> <<data.kw.k>>])
    ELSE ValidationOk

\* DynamicAgentFactory._validate_input(data)
validate_input(data) ==
    IF ~data.has
    THEN ValidationFailed("Missing required input: technology_keyword",
                          [key |-> "input_data", val |-> <<>>])
    ELSE IF data.kw.k # "str"
    THEN ValidationFailed("technology_keyword must be a string",
                          [key |-> "type", val |-> <<data.kw.k>>])
    ELSE IF Blank(data.kw.q)
    THEN ValidationFailed("technology_keyword cannot be empty", NoDetails)
    ELSE ValidationOk

\* the names DynamicAgentFactory.run can read where it builds the argument
\* of get_agent: its locals so far and the names bound at module level of
\* dynamic_agent_factory.py
run_names ==
    {"self", "data", "validation_result", "tech", "options", "cache_key",
     "cached_result", "generation_info", "detected_keyword",
     "os", "uuid", "importlib", "logging", "time", "Dict", "Optional",
     "Type", "Any", "List", "Path", "datetime", "MicroAgent",
     "DynamicAgentFactoryLLM", "AgentGenerationError", "KeywordManager",
     "TRIGGER_MAP", "BaseError", "ValidationError", "StateError",
     "OperationResult", "Cache", "StateManager", "retry",
     "monitor_performance", "logger", "AgentFactoryError",
     "DynamicAgentFactory", "main"}

\* AgentInfo, without its timestamps and metadata
AgentInfo(keyword, status, error_history) ==
    [keyword |-> keyword, status |-> status, error_history |-> error_history]

\* KeywordManager.get_agent(keyword, metadata): the agents it leaves
get_agent(ags, kws, keyword) ==
    IF \A i \in 1..Len(kws) : kws[i] # keyword THEN ags
    ELSE IF keyword \in DOMAIN ags THEN ags
    ELSE [k \in DOMAIN ags \cup {keyword} |->
             IF k = keyword THEN AgentInfo(keyword, "Active", <<>>)
             ELSE ags[k]]

\* KeywordManager.update_agent_status(keyword, status, error): the agents
\* it leaves; error is a message, "" standing for None
update_agent_status(ags, keyword, status, error) ==
    IF keyword \notin DOMAIN ags THEN ags
    ELSE [ags EXCEPT ![keyword] =
             AgentInfo(keyword, status,
                       IF error # "" THEN @.error_history \o <<error>>
                       ELSE @.error_history)]

\* Cache.get(key) of a cache nothing has expired from
Cache_get(cache, key) ==
    IF key \in DOMAIN cache THEN cache[key] ELSE NoOutput

\* DynamicAgentFactory.run from the call of llm_factory.run on, result being
\* what that call gave and ags the agents get_agent left
factory_run_generate(detected_keyword, result, ags) ==
    LET status == IF result.res.agent_class # "None" THEN "active"
                  ELSE "error"
        before == <<"run", "validate_input", "result_cache.get",
                    "detect_keyword", "get_agent", "llm_factory.run">>
                      \o result.steps
    IN  IF result.res.exc = "AgentGenerationError"
        THEN \* except AgentGenerationError
             [result EXCEPT
                 !.res = Returned("None", "error", result.res.error,
                                  result.res.error_type, NoDetails),
                 !.steps = before \o <<"update_agent_status",
                                       "cleanup_temp_files">>]
             @@ [agents |-> update_agent_status(ags, detected_keyword,
                                                "error", result.res.error)]
        ELSE IF result.res.exc # "none"
        THEN \* except Exception
             [result EXCEPT
                 !.res = Returned("None", "error",
                                  "Unexpected error: " \o result.res.error,
                                  "", NoDetails),
                 !.steps = before \o <<"cleanup_temp_files">>]
             @@ [agents |-> ags]
        ELSE \* generation_info gets the status and no "error"
             [result EXCEPT
                 !.res = Returned(result.res.agent_class, status, "", "",
                                  NoDetails),
                 !.steps = before \o <<"update_agent_status",
                                       "cleanup_temp_files">>]
             @@ [agents |-> update_agent_status(ags, detected_keyword,
                                                status, result.res.error)]

\* the try block of DynamicAgentFactory.run, with what _validate_input
\* returned, the lowered keyword and what detect_keyword returns for it
factory_run_try(behaviour, cache, kws, ags, rcache, validation_result, tech, detected_keyword) ==
    LET cached_result == Cache_get(rcache, tech)
        same == [res |-> NoOutput, cache |-> cache, gen |-> PNone,
                 steps |-> <<>>, agents |-> ags]
    IN  IF ~validation_result.success
        THEN [same EXCEPT
                 !.res = Returned("None", "error", validation_result.message,
                                  "ValidationError",
                                  validation_result.details),
                 !.steps = <<"run", "validate_input",
                             "cleanup_temp_files">>]
        ELSE IF cached_result # NoOutput
        THEN [same EXCEPT
                 !.res = cached_result,
                 !.steps = <<"run", "validate_input", "result_cache.get",
                             "cleanup_temp_files">>]
        ELSE IF ~detected_keyword.found
        THEN [same EXCEPT
                 !.res = Returned("None", "error", "Unknown technology", "",
                                  NoDetails),
                 !.steps = <<"run", "validate_input", "result_cache.get",
                             "detect_keyword", "cleanup_temp_files">>]
        ELSE IF "start_time" \notin run_names
        THEN \* NameError, caught by except Exception
             [same EXCEPT
                 !.res = Returned("None", "error",
                     "Unexpected error: name 'start_time' is not defined",
                     "", NoDetails),
                 !.steps = <<"run", "validate_input", "result_cache.get",
                             "detect_keyword", "cleanup_temp_files">>]
        ELSE factory_run_generate(
                 detected_keyword.keyword,
                 llm_run(Data(TRUE, PText(detected_keyword.keyword)),
                         behaviour, cache),
                 get_agent(ags, kws, detected_keyword.keyword))

\* the body of DynamicAgentFactory.run(data): what it returns or raises
\* (res), the llm_cache and the agents it leaves, the OperationResult of
\* _generate_code and its steps.  result_cache is only read.  Every
\* exception of the try block is caught, and the handler can build its
\* result wherever generation_info is bound, so none leaves the body.
factory_run(data, behaviour, cache, kws, ags, rcache) ==
    factory_run_try(behaviour, cache, kws, ags, rcache, validate_input(data),
                    lower(data.kw.q), detect_keyword(lower(data.kw.q), kws))

\* the wrapper of retry around DynamicAgentFactory.run: after the body gave
\* g in try number attempt + 1, it returns what the body returned, or
\* sleeps and runs the body again, or raises the last exception
RECURSIVE retry_run(_, _, _, _, _, _, _, _, _)
retry_run_retries_errors(data, behaviour, kws, rcache, g, attempt, current_delay, log) ==
    IF (g.res.exc = "none" /\ g.res.status # "error")
           \/ attempt + 1 >= max_attempts
    THEN [g EXCEPT !.steps = log \o g.steps]
    ELSE retry_run(data, behaviour, g.cache, kws, g.agents, rcache,
                   attempt + 1, current_delay * backoff,
                   log \o g.steps \o <<Sleep(current_delay)>>)

retry_run_next(data, behaviour, kws, rcache, g, attempt, current_delay, log) ==
    IF g.res.exc = "none" \/ attempt + 1 >= max_attempts
    THEN [g EXCEPT !.steps = log \o g.steps]
    ELSE retry_run(data, behaviour, g.cache, kws, g.agents, rcache,
                   attempt + 1, current_delay * backoff,
                   log \o g.steps \o <<Sleep(current_delay)>>)

retry_run(data, behaviour, cache, kws, ags, rcache, attempt, current_delay, log) ==
    retry_run_next(data, behaviour, kws, rcache,
                   factory_run(data, behaviour, cache, kws, ags, rcache),
                   attempt, current_delay, log)

\* a caller calls DynamicAgentFactory.run(data)
DynamicAgentFactory_run(data, behaviour) ==
    /\ calls < MaxCalls
    /\ \E r \in {retry_run(data, behaviour, llm_cache, keywords, agents,
                            result_cache, 0, delay, <<>>)} :
            /\ calls' = calls + 1
            /\ out' = r.res
            /\ llm_cache' = r.cache
            /\ agents' = r.agents
            /\ steps' = r.steps
            /\ req' = Request("DynamicAgentFactory.run", data, behaviour, r.gen)
            /\ UNCHANGED restVars
            /\ UNCHANGED <<smVars, code, validation, keywords, result_cache,
                           ldVars>>

\* a caller calls AgentValidator().validate(code, trigger_info)
AgentValidator_call ==
    /\ validation = NoValidation
    /\ av_trigger # NoTriggerInfo
    /\ validation' = AgentValidator_validate(code, av_trigger)
    /\ UNCHANGED restVars
    /\ UNCHANGED <<smVars, code, keywords, llm_cache, req, out, steps,
                   agents, result_cache, calls, ldVars>>

\* a caller calls validate(code) of the StructureValidator of AgentValidator
StructureValidator_call ==
    /\ validation = NoValidation
    /\ validation' = StructureValidator_validate(code)
    /\ UNCHANGED restVars
    /\ UNCHANGED <<smVars, code, keywords, llm_cache, req, out, steps,
                   agents, result_cache, calls, ldVars>>

\* a caller calls CodeValidator().validate(code)
validate ==
    /\ validation = NoValidation
    /\ validation' = CodeValidator_validate(code)
    /\ UNCHANGED restVars
    /\ UNCHANGED <<smVars, code, keywords, llm_cache, req, out, steps,
                   agents, result_cache, calls, ldVars>>

(***************************************************************************)
(* DynamicAgentFactoryLLM._load_agent_class (factory.py) step by step, for *)
(* calls that run at the same time, and the temporary-file cleanup of      *)
(* DynamicAgentFactory (dynamic_agent_factory.py).                         *)
(***************************************************************************)
\* DynamicAgentFactoryLLM.temp_dir and DynamicAgentFactory.temp_dir for the
\* default state_dir
llm_temp_dir == "/tmp/dynamic_agent_factory"

factory_temp_dir == "/tmp/dynamic_agent_factory/temp"

\* a path: its directory, the stem of its name and the suffix
FilePath(dir, stem, suffix) == [dir |-> dir, stem |-> stem, suffix |-> suffix]

NoPath == FilePath("", "", "")

\* the values uuid4() returns; no value is returned twice
UUIDs == 1..MaxLoads

temp_file_without_uuid(class_name, uuid) ==
    FilePath(llm_temp_dir, LowerFragment(class_name), ".py")

\* temp_dir / f"{class_name.lower()}_{uuid.uuid4().hex}.py"
temp_file(class_name, uuid) ==
    FilePath(llm_temp_dir,
             LowerFragment(class_name) \o "_" \o ToString(uuid), ".py")

\* the bytecode file the source loader of importlib writes for a source
\* file it compiled, unless the interpreter is told not to write bytecode
cache_from_source(path) ==
    FilePath(path.dir \o "/__pycache__", path.stem, ".pyc")

\* the files after a write of text q to path, and after the unlink of paths
write_text(fs, path, q) ==
    [p \in DOMAIN fs \cup {path} |-> IF p = path THEN q ELSE fs[p]]

unlink(fs, paths) == [p \in DOMAIN fs \ paths |-> fs[p]]

\* a call of _load_agent_class: its place, its arguments, its temp_file,
\* the source text exec_module ran, the exception of its try block, what it
\* returned or raised and, as history, the files it created
LoaderCallOf(at, code_str, trigger_info, path, module, e, result, created) ==
    [pc |-> at, code_str |-> code_str, trigger_info |-> trigger_info,
     temp_file |-> path, module |-> module, e |-> e, res |-> result,
     created |-> created]

NoLoaderCall ==
    LoaderCallOf("idle", PNone, TriggerOf(<<"python">>), NoPath, PNone,
                 NoException, NoOutput, {})

\* thread t calls _load_agent_class(code_str, trigger_info)
LoaderCall(t, code_str, trigger_info) ==
    /\ loads < MaxLoads
    /\ loader[t].pc \in {"idle", "done"}
    /\ loads' = loads + 1
    /\ loader' = [loader EXCEPT ![t] =
                     LoaderCallOf("name", code_str, trigger_info, NoPath,
                                  PNone, NoException, NoOutput, {})]
    /\ UNCHANGED restVars
    /\ UNCHANGED <<smVars, code, validation, keywords, llm_cache, req, out,
                   steps, agents, result_cache, calls, scratch, used>>

\* line 292: the name of the scratch file
LoaderName(t) ==
    /\ loader[t].pc = "name"
    /\ \E uuid \in UUIDs \ used :
           /\ used' = used \cup {uuid}
           /\ loader' = [loader EXCEPT
                  ![t].pc = "write",
                  ![t].temp_file =
                      temp_file(loader[t].trigger_info.class_name, uuid)]
    /\ UNCHANGED restVars
    /\ UNCHANGED <<smVars, code, validation, keywords, llm_cache, req, out,
                   steps, agents, result_cache, calls, scratch, loads>>

\* line 295: write_text, which raises TypeError before it opens the file
\* when code_str is not a str
LoaderWrite(t) ==
    /\ loader[t].pc = "write"
    /\ IF loader[t].code_str.k = "str"
       THEN /\ scratch' = write_text(scratch, loader[t].temp_file,
                                    loader[t].code_str.q)
            /\ loader' = [loader EXCEPT
                   ![t].pc = "import",
                   ![t].created = @ \cup {loader[t].temp_file}]
       ELSE /\ scratch' = scratch
            /\ loader' = [loader EXCEPT
                   ![t].pc = "finally",
                   ![t].e = Exception("TypeError", "TypeError", "")]
    /\ UNCHANGED restVars
    /\ UNCHANGED <<smVars, code, validation, keywords, llm_cache, req, out,
                   steps, agents, result_cache, calls, used, loads>>

\* lines 298-313: the import of the scratch file as it is now and the checks
\* of the class; the loader leaves the bytecode of a text that compiled in
\* __pycache__ when the interpreter writes bytecode
LoaderImport(t, write_bytecode) ==
    /\ loader[t].pc = "import"
    /\ IF loader[t].temp_file \notin DOMAIN scratch
       THEN /\ scratch' = scratch
            /\ loader' = [loader EXCEPT
                   ![t].pc = "finally",
                   ![t].e = Exception("FileNotFoundError",
                                      "FileNotFoundError", "")]
       ELSE \E q \in {scratch[loader[t].temp_file]} :
                IF write_bytecode /\ Balanced(q, 1, 0)
                THEN /\ scratch' =
                            write_text(scratch,
                                      cache_from_source(loader[t].temp_file),
                                      q)
                     /\ loader' = [loader EXCEPT
                            ![t].pc = "finally",
                            ![t].module = PText(q),
                            ![t].e = import_module(q, loader[t].trigger_info),
                            ![t].created =
                                @ \cup {cache_from_source(loader[t].temp_file)}]
                ELSE /\ scratch' = scratch
                     /\ loader' = [loader EXCEPT
                            ![t].pc = "finally",
                            ![t].module = PText(q),
                            ![t].e = import_module(q, loader[t].trigger_info)]
    /\ UNCHANGED restVars
    /\ UNCHANGED <<smVars, code, validation, keywords, llm_cache, req, out,
                   steps, agents, result_cache, calls, used, loads>>

\* lines 315-327: the return or the except handler, and the finally clause,
\* which unlinks temp_file if it exists
LoaderFinally(t) ==
    /\ loader[t].pc = "finally"
    /\ scratch' = unlink(scratch, {loader[t].temp_file})
    /\ loader' = [loader EXCEPT
           ![t].pc = "done",
           ![t].res = except_Exception(loader[t].e, loader[t].trigger_info)]
    /\ UNCHANGED restVars
    /\ UNCHANGED <<smVars, code, validation, keywords, llm_cache, req, out,
                   steps, agents, result_cache, calls, used, loads>>

\* the *.py files of DynamicAgentFactory.temp_dir
TempFiles(fs) ==
    {p \in DOMAIN fs : p.dir = factory_temp_dir /\ p.suffix = ".py"}

\* a run of DynamicAgentFactory reaches its finally clause:
\* _cleanup_temp_files() unlinks every *.py file of its temp_dir
cleanup_temp_files ==
    /\ TempFiles(scratch) # {}
    /\ scratch' = unlink(scratch, TempFiles(scratch))
    /\ UNCHANGED restVars
    /\ UNCHANGED <<smVars, code, validation, keywords, llm_cache, req, out,
                   steps, agents, result_cache, calls, used, loader, loads>>

\* the code_str arguments of _load_agent_class for the python trigger: a
\* MicroAgent subclass, a class of another base, a module without the
\* class, a text that does not compile, a module that raises, and the
\* OperationResult generate_agent passes
LoaderCodes ==
    {PText(AgentCode(TriggerOf(<<"python">>), "MicroAgent")),
     PText(AgentCode(TriggerOf(<<"python">>), "object")),
     PText(<<"print", "(", "x", ")">>),
     PText(<<"class", " ", "PythonAnalyzer", "(", ":">>),
     PText(<<"raise", " ", "x">>),
     CodeResult(TRUE, PText(AgentCode(TriggerOf(<<"python">>), "MicroAgent")),
                FALSE)}

\* no _load_agent_class was called and the temporary directories are empty
LoaderIdle ==
    /\ scratch = <<>>
    /\ used = {}
    /\ loader = [t \in Threads |-> NoLoaderCall]
    /\ loads = 0

\* the fragments of the code strings handed to CodeValidator
CodeAlphabet ==
    {"os", ".", "system", " ", "subprocess", "eval", "exec", "(",
     "__import__", "open", "socket", "request", "s", "urllib", "x"}

Codes ==
    {PText(q) : q \in UNION {[1..n -> CodeAlphabet] : n \in 0..MaxCodeLen}}

\* the inputs of run
RunInputs ==
    {Data(FALSE, PNone), Data(TRUE, PNone), Data(TRUE, PInt("5"))}
    \cup {Data(TRUE, PText(q)) :
            q \in {<<>>, <<" ">>, <<"python">>, <<"PYTHON">>,
                   <<"ci", "/", "cd">>, <<"ci">>, <<"cobol">>,
                   <<"React", " ", "python">>}}

(***************************************************************************)
(* retry (utils.py) step by step.  The wrapper of level 1 is the one       *)
(* around DynamicAgentFactory.run, the wrapper of level 2 the one around   *)
(* _generate_code, which the body of run reaches through llm_factory.run.  *)
(* The wrapped function is the environment: an invocation returns, raises  *)
(* an exception of the configured types or raises another one.             *)
(***************************************************************************)
Levels == {1, 2}

\* the invocations of func in one call of a wrapper
MaxInvocations == 4

\* what an invocation gave: the value or exception of invocation number of
Outcome(kind, of) == [kind |-> kind, of |-> of]

NoOutcome == Outcome("none", 0)

\* the locals of wrapper (attempt, current_delay, last_exception), where it
\* stands, the exception func raised, where the body of func stands, the
\* invocations and sleeps so far and what the wrapper gave its caller
Wrapper(at, attempt, current_delay, last_exception, raised, body, invocations, waits, result) ==
    [pc |-> at, attempt |-> attempt, current_delay |-> current_delay,
     last_exception |-> last_exception, raised |-> raised, body |-> body,
     invocations |-> invocations, waits |-> waits, result |-> result]

NoWrapper == Wrapper("idle", 0, 0, NoOutcome, NoOutcome, "none", 0, <<>>, NoOutcome)

\* wrapper(*args) is entered: last_exception = None, attempt = 0,
\* current_delay = delay
wrapper_enter(par) ==
    Wrapper("while", 0, par.d, NoOutcome, NoOutcome, "none", 0, <<>>, NoOutcome)

\* "while attempt < max_attempts": func is invoked, or the loop ends and
\* last_exception is raised
wrapper_while(w, par) ==
    IF w.attempt < par.n
    THEN [w EXCEPT !.pc = "func", !.body = "start",
                   !.invocations = w.invocations + 1]
    ELSE [w EXCEPT !.pc = "done", !.result = w.last_exception]

\* the except clause with an attempt that stays what it was
wrapper_except_forgets(w, par) ==
    [w EXCEPT !.last_exception = w.raised, !.raised = NoOutcome,
              !.pc = IF w.attempt < par.n THEN "sleep" ELSE "while"]

\* "except exceptions as e": attempt += 1, last_exception = e, and a sleep
\* follows if attempt < max_attempts
wrapper_except(w, par) ==
    [w EXCEPT !.attempt = w.attempt + 1, !.last_exception = w.raised,
              !.raised = NoOutcome,
              !.pc = IF w.attempt + 1 < par.n THEN "sleep" ELSE "while"]

\* the sleep that leaves current_delay as it was
wrapper_sleep_constant(w, par) ==
    [w EXCEPT !.waits = Append(w.waits, w.current_delay), !.pc = "while"]

\* time.sleep(current_delay); current_delay *= backoff
wrapper_sleep(w, par) ==
    [w EXCEPT !.waits = Append(w.waits, w.current_delay),
              !.current_delay = w.current_delay * par.b, !.pc = "while"]

\* the body of func at level l runs, and no wrapped call of it is open
InFunc(l) ==
    /\ rt[l].pc = "func"
    /\ rt[l].invocations <= MaxInvocations
    /\ l = 1 => rt[l].body # "generating"
    /\ l = 2 => rt[1].body = "generating"

\* a caller calls the wrapped DynamicAgentFactory.run
retry_call ==
    /\ rt_calls < MaxRetryCalls
    /\ rt[1].pc \in {"idle", "done"}
    /\ rt_calls' = rt_calls + 1
    /\ rt' = [l \in Levels |-> IF l = 1 THEN wrapper_enter(rt_par)
                               ELSE NoWrapper]
    /\ UNCHANGED rt_par
    /\ UNCHANGED <<smVars, coreVars, cacheVars, kmVars, tmVars, avVars>>

\* the test of the while loop of wrapper l
retry_while(l) ==
    /\ rt[l].pc = "while"
    /\ rt' = [rt EXCEPT ![l] = wrapper_while(rt[l], rt_par)]
    /\ UNCHANGED <<rt_par, rt_calls>>
    /\ UNCHANGED <<smVars, coreVars, cacheVars, kmVars, tmVars, avVars>>

\* "return func(*args, **kwargs)": func returns and so does wrapper l
func_returns(l) ==
    /\ InFunc(l)
    /\ rt' = [rt EXCEPT ![l].pc = "done",
                        ![l].result = Outcome("returned", rt[l].invocations)]
    /\ UNCHANGED <<rt_par, rt_calls>>
    /\ UNCHANGED <<smVars, coreVars, cacheVars, kmVars, tmVars, avVars>>

\* func raises: an exception of the configured types goes to the except
\* clause, any other leaves wrapper l
func_raises(l, kind) ==
    /\ InFunc(l)
    /\ rt' = [rt EXCEPT ![l] =
                 IF kind = "caught"
                 THEN [@ EXCEPT !.pc = "except",
                                !.raised = Outcome(kind, rt[l].invocations)]
                 ELSE [@ EXCEPT !.pc = "done",
                                !.result = Outcome(kind, rt[l].invocations)]]
    /\ UNCHANGED <<rt_par, rt_calls>>
    /\ UNCHANGED <<smVars, coreVars, cacheVars, kmVars, tmVars, avVars>>

\* the except clause of wrapper l
retry_except(l) ==
    /\ rt[l].pc = "except"
    /\ rt' = [rt EXCEPT ![l] = wrapper_except(rt[l], rt_par)]
    /\ UNCHANGED <<rt_par, rt_calls>>
    /\ UNCHANGED <<smVars, coreVars, cacheVars, kmVars, tmVars, avVars>>

\* the sleep of wrapper l
retry_sleep(l) ==
    /\ rt[l].pc = "sleep"
    /\ rt' = [rt EXCEPT ![l] = wrapper_sleep(rt[l], rt_par)]
    /\ UNCHANGED <<rt_par, rt_calls>>
    /\ UNCHANGED <<smVars, coreVars, cacheVars, kmVars, tmVars, avVars>>

\* the body of run calls llm_factory.run, which reaches the wrapped
\* _generate_code once
run_calls_generate_code ==
    /\ rt[1].pc = "func"
    /\ rt[1].body = "start"
    /\ rt' = [rt EXCEPT ![1].body = "generating",
                        ![2] = wrapper_enter(rt_par)]
    /\ UNCHANGED <<rt_par, rt_calls>>
    /\ UNCHANGED <<smVars, coreVars, cacheVars, kmVars, tmVars, avVars>>

\* the wrapped _generate_code has returned or raised and the body of run
\* goes on
generate_code_ends ==
    /\ rt[1].pc = "func"
    /\ rt[1].body = "generating"
    /\ rt[2].pc = "done"
    /\ rt' = [rt EXCEPT ![1].body = "after"]
    /\ UNCHANGED <<rt_par, rt_calls>>
    /\ UNCHANGED <<smVars, coreVars, cacheVars, kmVars, tmVars, avVars>>

(***************************************************************************)
(* Cache (utils.py): a dictionary key -> {value, timestamp} behind a Lock  *)
(***************************************************************************)
CacheKeys == {"a", "b"}

CacheValues == {"v1", "v2"}

\* an entry of self._cache, and the absence of one
Entry(value, timestamp) ==
    [has |-> TRUE, value |-> value, timestamp |-> timestamp]

NoEntry == [has |-> FALSE, value |-> "None", timestamp |-> 0]

\* a thread's call of get, set or clear: where it stands, the time.time()
\* it read (at), what it returns (res) and the exception it raises (exc)
CacheCallOf(at, op, key, value, time, result, exc) ==
    [pc |-> at, op |-> op, key |-> key, value |-> value, at |-> time,
     res |-> result, exc |-> exc]

NoCacheCall == CacheCallOf("idle", "none", "a", "None", 0, "None", "none")

\* thread t calls get(key), set(key, value) or clear()
Cache_call(t, op, key, value) ==
    /\ cache_ops < MaxCacheOps
    /\ cth[t].pc \in {"idle", "done"}
    /\ cache_ops' = cache_ops + 1
    /\ cth' = [cth EXCEPT ![t] =
                  CacheCallOf("acquire", op, key, value, 0, "None", "none")]
    /\ UNCHANGED <<ttl_cache, cache_lock, ttl, clock, latest>>
    /\ UNCHANGED <<smVars, coreVars, avVars, rtVars, kmVars, tmVars>>

\* `with self._lock:` entered without waiting for the lock
Lock_enter_unlocked(t) ==
    /\ cth[t].pc = "acquire"
    /\ cache_lock' = t
    /\ cth' = [cth EXCEPT ![t].pc = cth[t].op]
    /\ UNCHANGED <<ttl_cache, ttl, clock, latest, cache_ops>>
    /\ UNCHANGED <<smVars, coreVars, avVars, rtVars, kmVars, tmVars>>

\* `with self._lock:` is entered: the thread waits until the lock is free
Lock_enter(t) ==
    /\ cth[t].pc = "acquire"
    /\ cache_lock = 0
    /\ cache_lock' = t
    /\ cth' = [cth EXCEPT ![t].pc = cth[t].op]
    /\ UNCHANGED <<ttl_cache, ttl, clock, latest, cache_ops>>
    /\ UNCHANGED <<smVars, coreVars, avVars, rtVars, kmVars, tmVars>>

\* get: `if key not in self._cache: return None`
Cache_get_lookup(t) ==
    /\ cth[t].pc = "get"
    /\ cth' = [cth EXCEPT ![t].pc = IF ttl_cache[cth[t].key].has
                                    THEN "get_entry" ELSE "exit",
                          ![t].at = clock]
    /\ UNCHANGED <<ttl_cache, cache_lock, ttl, clock, latest, cache_ops>>
    /\ UNCHANGED <<smVars, coreVars, avVars, rtVars, kmVars, tmVars>>

\* get that stores the time of the read in the entry it has found
Cache_get_entry_touches(t) ==
    /\ cth[t].pc = "get_entry"
    /\ ttl_cache[cth[t].key].has
    /\ LET entry == ttl_cache[cth[t].key]
       IN  /\ cth' = [cth EXCEPT
                        ![t].at = clock,
                        ![t].pc = IF clock - entry.timestamp > ttl
                                  THEN "get_del" ELSE "exit",
                        ![t].res = IF clock - entry.timestamp > ttl
                                   THEN "None" ELSE entry.value]
           /\ ttl_cache' = [ttl_cache EXCEPT ![cth[t].key].timestamp =
                               IF clock - entry.timestamp > ttl
                               THEN entry.timestamp ELSE clock]
    /\ UNCHANGED <<cache_lock, ttl, clock, latest, cache_ops>>
    /\ UNCHANGED <<smVars, coreVars, avVars, rtVars, kmVars, tmVars>>

\* get: `entry = self._cache[key]`, a KeyError when the key is not there,
\* then `if time.time() - entry['timestamp'] > self.ttl`, and
\* `return entry['value']` when it is not
Cache_get_entry(t) ==
    /\ cth[t].pc = "get_entry"
    /\ LET entry == ttl_cache[cth[t].key]
       IN  cth' = [cth EXCEPT
                     ![t].at = clock,
                     ![t].pc = IF entry.has /\ clock - entry.timestamp > ttl
                               THEN "get_del" ELSE "exit",
                     ![t].exc = IF entry.has THEN "none" ELSE "KeyError",
                     ![t].res = IF entry.has /\ clock - entry.timestamp <= ttl
                                THEN entry.value ELSE "None"]
    /\ UNCHANGED <<ttl_cache, cache_lock, ttl, clock, latest, cache_ops>>
    /\ UNCHANGED <<smVars, coreVars, avVars, rtVars, kmVars, tmVars>>

\* get: `del self._cache[key]`, a KeyError when the key is not there, and
\* `return None`
Cache_get_del(t) ==
    /\ cth[t].pc = "get_del"
    /\ cth' = [cth EXCEPT
                 ![t].pc = "exit",
                 ![t].exc = IF ttl_cache[cth[t].key].has
                            THEN "none" ELSE "KeyError"]
    /\ ttl_cache' = [ttl_cache EXCEPT ![cth[t].key] = NoEntry]
    /\ UNCHANGED <<cache_lock, ttl, clock, latest, cache_ops>>
    /\ UNCHANGED <<smVars, coreVars, avVars, rtVars, kmVars, tmVars>>

\* set: `self._cache[key] = {'value': value, 'timestamp': time.time()}`
Cache_set(t) ==
    /\ cth[t].pc = "set"
    /\ cth' = [cth EXCEPT ![t].pc = "exit", ![t].at = clock]
    /\ ttl_cache' = [ttl_cache EXCEPT
                       ![cth[t].key] = Entry(cth[t].value, clock)]
    /\ latest' = [latest EXCEPT ![cth[t].key] = Entry(cth[t].value, clock)]
    /\ UNCHANGED <<cache_lock, ttl, clock, cache_ops>>
    /\ UNCHANGED <<smVars, coreVars, avVars, rtVars, kmVars, tmVars>>

\* clear: `self._cache.clear()`
Cache_clear(t) ==
    /\ cth[t].pc = "clear"
    /\ cth' = [cth EXCEPT ![t].pc = "exit", ![t].at = clock]
    /\ ttl_cache' = [k \in CacheKeys |-> NoEntry]
    /\ latest' = [k \in CacheKeys |-> NoEntry]
    /\ UNCHANGED <<cache_lock, ttl, clock, cache_ops>>
    /\ UNCHANGED <<smVars, coreVars, avVars, rtVars, kmVars, tmVars>>

\* the `with` block is left, by a return or by an exception: the lock is
\* released and the call is over
Lock_exit(t) ==
    /\ cth[t].pc = "exit"
    /\ cache_lock' = 0
    /\ cth' = [cth EXCEPT ![t].pc = "done"]
    /\ UNCHANGED <<ttl_cache, ttl, clock, latest, cache_ops>>
    /\ UNCHANGED <<smVars, coreVars, avVars, rtVars, kmVars, tmVars>>

\* time.time() moves on
Tick ==
    /\ clock < MaxTime
    /\ clock' = clock + 1
    /\ UNCHANGED <<ttl_cache, cache_lock, ttl, cth, latest, cache_ops>>
    /\ UNCHANGED <<smVars, coreVars, avVars, rtVars, kmVars, tmVars>>

(***************************************************************************)
(* KeywordManager (keyword_manager.py) over its own StateManager           *)
(***************************************************************************)
\* the KeywordManager object of the running process
Managers == {1}

\* an agent's metadata: None, or a dict from keys to values; the values are
\* strings ("1", "2"), a tuple ("tuple"), the list json makes of a tuple
\* ("list") and a set ("set"), which json cannot write
EmptyDict == [k \in {} |-> "1"]

Metadata(d) == [none |-> FALSE, d |-> d]

MetaNone == [none |-> TRUE, d |-> EmptyDict]

\* {**(agent.metadata or {}), **metadata}
merge_metadata(old, new) ==
    Metadata([k \in DOMAIN old.d \cup DOMAIN new.d |->
                 IF k \in DOMAIN new.d THEN new.d[k] ELSE old.d[k]])

\* json.loads(json.dumps(metadata))
json_metadata(metadata) ==
    [metadata EXCEPT !.d = [k \in DOMAIN metadata.d |->
                               IF metadata.d[k] = "tuple" THEN "list"
                               ELSE metadata.d[k]]]

\* json.dumps(metadata) raises no TypeError
json_writes(metadata) == \A k \in DOMAIN metadata.d : metadata.d[k] # "set"

\* AgentInfo with the fields that the calls read and write
AgentInfoAt(keyword, status, created_at, last_accessed, metadata, history) ==
    [keyword |-> keyword, status |-> status, created_at |-> created_at,
     last_accessed |-> last_accessed, metadata |-> metadata,
     error_history |-> history]

\* AgentInfo.from_dict(json.loads(json.dumps(agent.to_dict()))): the dates
\* pass through isoformat and fromisoformat unchanged
from_dict_to_dict(agent) ==
    [agent EXCEPT !.metadata = json_metadata(agent.metadata)]

\* an entry of self.keywords
KeywordEntry(keyword, description) ==
    [keyword |-> keyword, description |-> description]

\* the keys of self.keywords in dict order
Keys(kws) == [i \in 1..Len(kws) |-> kws[i].keyword]

HasKeyword(kws, keyword) == \E i \in 1..Len(kws) : kws[i].keyword = keyword

\* what a path holds: nothing, a file opened for writing and not written
\* to its end, or a JSON document with "keywords" and "agents"
KmDoc(kws, ags) == [kind |-> "json", keywords |-> kws, agents |-> ags]

KmNoFile == [kind |-> "missing", keywords |-> <<>>, agents |-> <<>>]

KmPartial == [kind |-> "partial", keywords |-> <<>>, agents |-> <<>>]

KmFiles(state, backup) == [state |-> state, backup |-> backup]

\* a KeywordManager's tables, and the object of a process that was killed
KmMemory(kws, ags) == [alive |-> TRUE, keywords |-> kws, agents |-> ags]

KmDead == [alive |-> FALSE, keywords |-> <<>>, agents |-> <<>>]

\* StateManager.save_state(state): the state file is renamed to the backup,
\* opened for writing and written; then the backup is unlinked. When
\* json.dump raises, the backup is renamed back and the error is raised
\* again. crash names the point at which the process is killed, if it is
km_save_state(fs, kws, ags, crash) ==
    LET renamed == IF fs.state.kind # "missing"
                   THEN KmFiles(KmNoFile, fs.state) ELSE fs
        opened == [renamed EXCEPT !.state = KmPartial]
    IN  CASE crash = "renamed" -> [fs |-> renamed, exc |-> "killed"]
          [] crash = "opened" -> [fs |-> opened, exc |-> "killed"]
          [] crash = "none" /\ \E k \in DOMAIN ags :
                                   ~json_writes(ags[k].metadata) ->
                [fs |-> IF renamed.backup.kind # "missing"
                        THEN KmFiles(renamed.backup, KmNoFile) ELSE opened,
                 exc |-> "TypeError"]
          [] OTHER ->
                [fs |-> KmFiles(KmDoc(kws, [k \in DOMAIN ags |->
                                           from_dict_to_dict(ags[k])]),
                                KmNoFile),
                 exc |-> "none"]

\* StateManager.load_state(): the document of the state file, and empty
\* tables when the file cannot be read or parsed
km_load_state(fs) ==
    IF fs.state.kind = "json" THEN fs.state ELSE KmDoc(<<>>, <<>>)

\* StateManager(state_file): _ensure_state_file
km_ensure_state_file(fs) ==
    IF fs.state.kind = "missing"
    THEN km_save_state(fs, <<>>, <<>>, "none").fs ELSE fs

\* _sync_with_trigger_map without its save: the keys of TRIGGER_MAP that
\* self.keywords lacks are added after its keys
sync_with_trigger_map(kws) ==
    kws \o [i \in 1..Len(SelectSeq(TriggerKeys,
                                  LAMBDA key : ~HasKeyword(kws, key))) |->
               KeywordEntry(SelectSeq(TriggerKeys,
                                      LAMBDA key : ~HasKeyword(kws, key))[i],
                            "TriggerInfo.description")]

\* KeywordManager(): the tables it holds and the files it leaves
KeywordManager_init(fs) ==
    LET ensured == km_ensure_state_file(fs)
        state == km_load_state(ensured)
        kws == sync_with_trigger_map(state.keywords)
    IN  [mem |-> KmMemory(kws, state.agents),
         fs |-> km_save_state(ensured, kws, state.agents, "none").fs]

\* what a call returns: its message (ret), the keyword that detect_keyword
\* returns (found), or the exception that leaves it (exc)
KmResult(mem, fs, ret, found, exc) ==
    [mem |-> mem, fs |-> fs, ret |-> ret, found |-> found, exc |-> exc]

\* _save_current_state() at the end of a call that returns ret
save_current_state(mem, fs, ret, crash) ==
    LET saved == km_save_state(fs, mem.keywords, mem.agents, crash)
    IN  KmResult(IF saved.exc = "killed" THEN KmDead ELSE mem, saved.fs,
                 IF saved.exc = "none" THEN ret ELSE "None", NoKeyword,
                 saved.exc)

\* re.match(r'^[a-zA-Z0-9_-]+$', keyword): `$` also matches before a
\* newline that ends the string
valid_keyword(keyword) ==
    LET n == IF Len(keyword) > 1 /\ keyword[Len(keyword)] = "\n"
             THEN Len(keyword) - 1 ELSE Len(keyword)
    IN  /\ n > 0
        /\ \A i \in 1..n : keyword[i] \notin Separators

\* an add_keyword that stores the description of a keyword it already has
km_add_keyword_overwrites(mem, fs, keyword, description, crash) ==
    IF ~valid_keyword(keyword)
    THEN KmResult(mem, fs, "invalid", NoKeyword, "none")
    ELSE save_current_state(
             [mem EXCEPT !.keywords =
                 Append(SelectSeq(@, LAMBDA e : e.keyword # keyword),
                        KeywordEntry(keyword, description))],
             fs, IF HasKeyword(mem.keywords, keyword) THEN "exists"
                 ELSE "added", crash)

\* add_keyword(keyword, description)
km_add_keyword(mem, fs, keyword, description, crash) ==
    IF ~valid_keyword(keyword)
    THEN KmResult(mem, fs, "invalid", NoKeyword, "none")
    ELSE IF HasKeyword(mem.keywords, keyword)
    THEN KmResult(mem, fs, "exists", NoKeyword, "none")
    ELSE save_current_state(
             [mem EXCEPT !.keywords =
                 Append(@, KeywordEntry(keyword, description))],
             fs, "added", crash)

\* a remove_keyword that leaves the agent of the keyword
km_remove_keyword_keeps_agent(mem, fs, keyword, crash) ==
    IF ~HasKeyword(mem.keywords, keyword)
    THEN KmResult(mem, fs, "not found", NoKeyword, "none")
    ELSE save_current_state(
             [mem EXCEPT
                 !.keywords = SelectSeq(@, LAMBDA e : e.keyword # keyword)],
             fs, "removed", crash)

\* remove_keyword(keyword)
km_remove_keyword(mem, fs, keyword, crash) ==
    IF ~HasKeyword(mem.keywords, keyword)
    THEN KmResult(mem, fs, "not found", NoKeyword, "none")
    ELSE save_current_state(
             [mem EXCEPT
                 !.keywords = SelectSeq(@, LAMBDA e : e.keyword # keyword),
                 !.agents = [k \in DOMAIN @ \ {keyword} |-> @[k]]],
             fs, "removed", crash)

\* get_agent(keyword, metadata) at the time now
km_get_agent(mem, fs, keyword, metadata, time, crash) ==
    IF ~HasKeyword(mem.keywords, keyword)
    THEN KmResult(mem, fs, "no keyword", NoKeyword, "none")
    ELSE IF keyword \in DOMAIN mem.agents
    THEN save_current_state(
             [mem EXCEPT
                 !.agents[keyword].last_accessed = time,
                 !.agents[keyword].metadata =
                     IF metadata.none \/ DOMAIN metadata.d = {} THEN @
                     ELSE merge_metadata(@, metadata)],
             fs, "retrieved", crash)
    ELSE save_current_state(
             [mem EXCEPT !.agents =
                 [k \in DOMAIN @ \cup {keyword} |->
                     IF k = keyword
                     THEN AgentInfoAt(keyword, "Active", time, time,
                                      metadata, <<>>)
                     ELSE @[k]]],
             fs, "created", crash)

\* update_agent_status that starts a new error_history with each error
km_update_agent_status_resets(mem, fs, keyword, status, error, time, crash) ==
    IF keyword \notin DOMAIN mem.agents
    THEN KmResult(mem, fs, "None", NoKeyword, "none")
    ELSE save_current_state(
             [mem EXCEPT
                 !.agents[keyword].status = status,
                 !.agents[keyword].last_accessed = time,
                 !.agents[keyword].error_history =
                     IF error \in {"None", ""} THEN @
                     ELSE <<[timestamp |-> time, error |-> error]>>],
             fs, "None", crash)

\* update_agent_status(keyword, status, error) at the time now; error is
\* "None" when it is not given
km_update_agent_status(mem, fs, keyword, status, error, time, crash) ==
    IF keyword \notin DOMAIN mem.agents
    THEN KmResult(mem, fs, "None", NoKeyword, "none")
    ELSE save_current_state(
             [mem EXCEPT
                 !.agents[keyword].status = status,
                 !.agents[keyword].last_accessed = time,
                 !.agents[keyword].error_history =
                     IF error \in {"None", ""} THEN @
                     ELSE Append(@, [timestamp |-> time, error |-> error])],
             fs, "None", crash)

\* the last call of a KeywordManager: its number, the manager, the method,
\* its arguments and what it returned
KmCall(n, i, op, keyword, metadata, error, r) ==
    [n |-> n, i |-> i, op |-> op, keyword |-> keyword,
     metadata |-> metadata, error |-> error, ret |-> r.ret,
     found |-> r.found, exc |-> r.exc]

NoKmCall ==
    [n |-> 0, i |-> 1, op |-> "none", keyword |-> <<>>,
     metadata |-> MetaNone, error |-> "None", ret |-> "None",
     found |-> NoKeyword, exc |-> "none"]

\* the call of manager i returned r
KmReturn(i, op, keyword, metadata, error, r) ==
    /\ km' = [km EXCEPT ![i] = r.mem]
    /\ km_fs' = r.fs
    /\ km_ops' = km_ops + 1
    /\ km_res' = KmCall(km_ops + 1, i, op, keyword, metadata, error, r)
    /\ UNCHANGED kth
    /\ UNCHANGED <<smVars, coreVars, avVars, rtVars, cacheVars, tmVars>>

\* a KeywordManager is constructed: the process starts again
KeywordManager_new(i) ==
    /\ km_ops < MaxKmOps
    /\ \E c \in {KeywordManager_init(km_fs)} :
          KmReturn(i, "KeywordManager", <<>>, MetaNone, "None",
                   KmResult(c.mem, c.fs, "None", NoKeyword, "none"))

KeywordManager_add_keyword(i, keyword, crash) ==
    /\ km_ops < MaxKmOps
    /\ km[i].alive
    /\ \E r \in {km_add_keyword(km[i], km_fs, keyword, "description",
                                crash)} :
          KmReturn(i, "add_keyword", keyword, MetaNone, "None", r)

KeywordManager_remove_keyword(i, keyword, crash) ==
    /\ km_ops < MaxKmOps
    /\ km[i].alive
    /\ \E r \in {km_remove_keyword(km[i], km_fs, keyword, crash)} :
          KmReturn(i, "remove_keyword", keyword, MetaNone, "None", r)

KeywordManager_get_agent(i, keyword, metadata, crash) ==
    /\ km_ops < MaxKmOps
    /\ km[i].alive
    /\ \E r \in {km_get_agent(km[i], km_fs, keyword, metadata, km_ops + 1,
                              crash)} :
          KmReturn(i, "get_agent", keyword, metadata, "None", r)

KeywordManager_update_agent_status(i, keyword, status, error, crash) ==
    /\ km_ops < MaxKmOps
    /\ km[i].alive
    /\ \E r \in {km_update_agent_status(km[i], km_fs, keyword, status, error,
                                        km_ops + 1, crash)} :
          KmReturn(i, "update_agent_status", keyword, MetaNone, error, r)

KeywordManager_detect_keyword(i, input_text) ==
    /\ km_ops < MaxKmOps
    /\ km[i].alive
    /\ \E found \in {detect_keyword(input_text, Keys(km[i].keywords))} :
          KmReturn(i, "detect_keyword", input_text, MetaNone, "None",
                   KmResult(km[i], km_fs, "None", found, "none"))

\* a call that a thread makes on the manager: where it stands (in the
\* method before _save_current_state builds state, before save_state, or
\* returned), the method, its keyword and the "agents" of the state dict
\* that _save_current_state built
KmThread(at, op, keyword, ags) ==
    [pc |-> at, op |-> op, keyword |-> keyword, agents |-> ags]

NoKmThread == KmThread("idle", "none", <<>>, <<>>)

\* the method returns before it changes a table or saves
km_rejects(mem, op, keyword) ==
    CASE op = "add_keyword" ->
             ~valid_keyword(keyword) \/ HasKeyword(mem.keywords, keyword)
      [] op = "remove_keyword" -> ~HasKeyword(mem.keywords, keyword)
      [] op = "get_agent" -> ~HasKeyword(mem.keywords, keyword)
      [] OTHER -> keyword \notin DOMAIN mem.agents

\* the tables after the statements of the method that come before
\* _save_current_state
km_tables(mem, fs, op, keyword, metadata, time) ==
    CASE op = "add_keyword" ->
             km_add_keyword(mem, fs, keyword, "description", "none").mem
      [] op = "remove_keyword" ->
             km_remove_keyword(mem, fs, keyword, "none").mem
      [] op = "get_agent" ->
             km_get_agent(mem, fs, keyword, metadata, time, "none").mem
      [] OTHER ->
             km_update_agent_status(mem, fs, keyword, "error", "boom", time,
                                    "none").mem

\* thread t calls a method of the manager, which changes the tables in
\* memory, or returns at once when it rejects the call
KeywordManager_thread_call(t, op, keyword, metadata) ==
    /\ km_ops < MaxKmOps
    /\ km[1].alive
    /\ kth[t].pc \in {"idle", "done"}
    /\ km_ops' = km_ops + 1
    /\ km' = [km EXCEPT ![1] = km_tables(km[1], km_fs, op, keyword, metadata,
                                         km_ops + 1)]
    /\ kth' = [kth EXCEPT ![t] =
                  KmThread(IF km_rejects(km[1], op, keyword) THEN "done"
                           ELSE "state", op, keyword, <<>>)]
    /\ UNCHANGED <<km_fs, km_res>>
    /\ UNCHANGED <<smVars, coreVars, avVars, rtVars, cacheVars, tmVars>>

\* _save_current_state of thread t builds state: "keywords" is the dict
\* self.keywords itself, "agents" a new dict of the to_dict() of each agent
KeywordManager_thread_state(t) ==
    /\ kth[t].pc = "state"
    /\ kth' = [kth EXCEPT ![t].pc = "save", ![t].agents = km[1].agents]
    /\ UNCHANGED <<km, km_fs, km_res, km_ops>>
    /\ UNCHANGED <<smVars, coreVars, avVars, rtVars, cacheVars, tmVars>>

\* state_manager.save_state(state) of a thread, inside the lock: the files
\* afterwards
km_thread_saves(fs, mem, ags) ==
    km_save_state(fs, mem.keywords, ags, "none").fs

\* thread t runs save_state(state) and its method returns
KeywordManager_thread_save(t) ==
    /\ kth[t].pc = "save"
    /\ km_fs' = km_thread_saves(km_fs, km[1], kth[t].agents)
    /\ kth' = [kth EXCEPT ![t].pc = "done"]
    /\ UNCHANGED <<km, km_res, km_ops>>
    /\ UNCHANGED <<smVars, coreVars, avVars, rtVars, cacheVars, tmVars>>

\* no KeywordManager was constructed and there is no state file
KmIdle ==
    /\ km = [i \in Managers |-> KmDead]
    /\ km_fs = KmFiles(KmNoFile, KmNoFile)
    /\ km_res = NoKmCall
    /\ km_ops = 0
    /\ kth = [t \in Threads |-> NoKmThread]

(***************************************************************************)
(* TriggerMapManager (trigger_map.py) over the technology registry         *)
(***************************************************************************)
TmKeys == {"python", "react", "go"}

\* a TriggerInfo of trigger_map.py, and the absence of one
TriggerMapInfo(class_name, description, required_imports) ==
    [has |-> TRUE, class_name |-> class_name, description |-> description,
     required_imports |-> required_imports]

NoTrigger ==
    [has |-> FALSE, class_name |-> "", description |-> "",
     required_imports |-> <<>>]

\* a technology of TechStackAnalyzer.technologies
TechInfo(name, type, category, is_validated) ==
    [name |-> name, type |-> type, category |-> category,
     is_validated |-> is_validated]

\* list_technologies(validated_only=True)
list_technologies(techs) == {tech \in techs : tech.is_validated}

\* _get_required_imports(tech)
get_required_imports(tech) ==
    CASE tech.type = "language" /\ tech.name = "python" ->
             <<"typing", "ast", "pylint">>
      [] tech.type = "language" /\ tech.name = "javascript" ->
             <<"typing", "esprima", "eslint">>
      [] tech.type = "framework" /\ tech.category = "frontend" ->
             <<"typing", "esprima", "eslint">>
      [] tech.type = "framework" /\ tech.category = "backend" ->
             <<"typing", "ast", "pylint">>
      [] OTHER -> <<"typing">>

\* f"{name.lower().replace(' ', '_').title()}Analyzer"
tech_class_name(name) ==
    CASE LowerFragment(name) = "python" -> "PythonAnalyzer"
      [] LowerFragment(name) = "react" -> "ReactAnalyzer"
      [] OTHER -> "GoAnalyzer"

\* _generate_tech_triggers(): a trigger under name.lower() for each
\* validated technology
generate_tech_triggers(techs) ==
    [key \in TmKeys |->
        IF \E tech \in list_technologies(techs) :
               LowerFragment(tech.name) = key
        THEN LET tech == CHOOSE tech \in list_technologies(techs) :
                             LowerFragment(tech.name) = key
             IN  TriggerMapInfo(tech_class_name(tech.name),
                                "Analyzer for " \o tech.name,
                                get_required_imports(tech))
        ELSE NoTrigger]

\* the base triggers of _initialize_default_triggers
base_triggers ==
    [key \in TmKeys |->
        IF key = "python"
        THEN TriggerMapInfo("PythonAnalyzer", "Advanced Python code analyzer",
                            <<"ast", "pylint">>)
        ELSE NoTrigger]

\* self.triggers.update(other)
update(self, other) ==
    [key \in TmKeys |-> IF other[key].has THEN other[key] ELSE self[key]]

\* _initialize_default_triggers(): self.triggers afterwards
initialize_default_triggers(techs) ==
    update(base_triggers, generate_tech_triggers(techs))

\* no trigger under any key
NoTriggers == [key \in TmKeys |-> NoTrigger]

\* trigger_map_state.json: whether it exists, the top-level keys of its
\* document, the triggers under data["triggers"] and those under "triggers"
TmDoc(exists, top, data, tops) ==
    [exists |-> exists, top |-> top, data |-> data, triggers |-> tops]

TmNoFile == TmDoc(FALSE, {}, NoTriggers, NoTriggers)

\* StateManager._ensure_state_file: a missing file gets {"data": {}, ...}
tm_ensure_state_file(file) ==
    IF file.exists THEN file
    ELSE TmDoc(TRUE, {"data", "metadata"}, NoTriggers, NoTriggers)

\* _save_state: {"triggers": {k: v.to_dict()}, "metadata": {...}} goes to
\* StateManager.save_state, which writes the dict it is given
tm_save_state(self) ==
    TmDoc(TRUE, {"triggers", "metadata"}, NoTriggers, self)

\* _load_state: self.triggers afterwards; load_state fails on a document
\* without the key "data", and an empty data is not taken either
tm_load_state(file, techs) ==
    IF /\ file.exists
       /\ "data" \in file.top
       /\ \E key \in TmKeys : file.data[key].has
    THEN file.data
    ELSE initialize_default_triggers(techs)

\* the result of get_trigger, add_trigger, update_trigger or remove_trigger
TmResult(op, key, success, data, source, error_type) ==
    [op |-> op, key |-> key, success |-> success, data |-> data,
     source |-> source, error_type |-> error_type]

NoTmResult == TmResult("none", "", FALSE, NoTrigger, "", "")

\* TriggerMapManager(): TechStackAnalyzer() raises when its state file holds
\* no technologies to load; else the state file of the triggers, which no
\* save of the manager leaves loadable, makes _load_state take the defaults
TriggerMapManager_new ==
    /\ tm_ops < MaxTmOps
    /\ tm_ops' = tm_ops + 1
    /\ IF registry.loads
       THEN /\ triggers' = tm_load_state(tm_ensure_state_file(tm_file),
                                         registry.technologies)
            /\ tm_file' = tm_save_state(triggers')
            /\ statics' = base_triggers
            /\ tm_built' = TRUE
            /\ tm_res' = TmResult("TriggerMapManager", "", TRUE, NoTrigger,
                                  "", "")
       ELSE /\ triggers' = [key \in TmKeys |-> NoTrigger]
            /\ tm_file' = tm_ensure_state_file(tm_file)
            /\ statics' = [key \in TmKeys |-> NoTrigger]
            /\ tm_built' = FALSE
            /\ tm_res' = TmResult("TriggerMapManager", "", FALSE, NoTrigger,
                                  "", "DatabaseUpdateError")
    /\ trigger_cache' = [key \in TmKeys |-> NoTrigger]
    /\ UNCHANGED registry
    /\ UNCHANGED <<smVars, coreVars, avVars, rtVars, cacheVars, kmVars>>

\* get_trigger(key); expired tells that the ttl of the cached entry is over
TriggerMapManager_get_trigger(key, expired) ==
    /\ tm_ops < MaxTmOps
    /\ tm_built
    /\ tm_ops' = tm_ops + 1
    /\ LET cached == IF expired THEN NoTrigger ELSE trigger_cache[key]
           tech_triggers == generate_tech_triggers(registry.technologies)
       IN  CASE cached.has ->
                  /\ tm_res' = TmResult("get_trigger", key, TRUE, cached,
                                        "cache", "")
                  /\ UNCHANGED trigger_cache
             [] ~cached.has /\ triggers[key].has ->
                  /\ tm_res' = TmResult("get_trigger", key, TRUE,
                                        triggers[key], "triggers", "")
                  /\ trigger_cache' =
                         [trigger_cache EXCEPT ![key] = triggers[key]]
             [] ~cached.has /\ ~triggers[key].has /\ tech_triggers[key].has ->
                  /\ tm_res' = TmResult("get_trigger", key, TRUE,
                                        tech_triggers[key], "tech_analyzer",
                                        "")
                  /\ trigger_cache' =
                         [trigger_cache EXCEPT ![key] = tech_triggers[key]]
             [] OTHER ->
                  /\ tm_res' = TmResult("get_trigger", key, FALSE, NoTrigger,
                                        "", "TriggerNotFound")
                  /\ trigger_cache' = [trigger_cache EXCEPT ![key] = NoTrigger]
    /\ UNCHANGED <<registry, triggers, statics, tm_built, tm_file>>
    /\ UNCHANGED <<smVars, coreVars, avVars, rtVars, cacheVars, kmVars>>

\* add_trigger(key, trigger)
TriggerMapManager_add_trigger(key, trigger) ==
    /\ tm_ops < MaxTmOps
    /\ tm_built
    /\ tm_ops' = tm_ops + 1
    /\ IF triggers[key].has
       THEN /\ tm_res' = TmResult("add_trigger", key, FALSE, NoTrigger, "",
                                  "DuplicateTrigger")
            /\ UNCHANGED <<triggers, statics, trigger_cache, tm_file>>
       ELSE /\ tm_res' = TmResult("add_trigger", key, TRUE, NoTrigger, "", "")
            /\ triggers' = [triggers EXCEPT ![key] = trigger]
            /\ statics' = [statics EXCEPT ![key] = trigger]
            /\ trigger_cache' = [trigger_cache EXCEPT ![key] = trigger]
            /\ tm_file' = tm_save_state(triggers')
    /\ UNCHANGED <<registry, tm_built>>
    /\ UNCHANGED <<smVars, coreVars, avVars, rtVars, cacheVars, kmVars>>

\* update_trigger without its self.trigger_cache.set(key, trigger)
TriggerMapManager_update_skips_cache(key, trigger) ==
    /\ tm_ops < MaxTmOps
    /\ tm_built
    /\ tm_ops' = tm_ops + 1
    /\ IF ~triggers[key].has
       THEN /\ tm_res' = TmResult("update_trigger", key, FALSE, NoTrigger, "",
                                  "TriggerNotFound")
            /\ UNCHANGED <<triggers, statics, trigger_cache, tm_file>>
       ELSE /\ tm_res' = TmResult("update_trigger", key, TRUE, NoTrigger, "",
                                  "")
            /\ triggers' = [triggers EXCEPT ![key] = trigger]
            /\ statics' = [statics EXCEPT ![key] = trigger]
            /\ tm_file' = tm_save_state(triggers')
            /\ UNCHANGED trigger_cache
    /\ UNCHANGED <<registry, tm_built>>
    /\ UNCHANGED <<smVars, coreVars, avVars, rtVars, cacheVars, kmVars>>

\* update_trigger(key, trigger)
TriggerMapManager_update_trigger(key, trigger) ==
    /\ tm_ops < MaxTmOps
    /\ tm_built
    /\ tm_ops' = tm_ops + 1
    /\ IF ~triggers[key].has
       THEN /\ tm_res' = TmResult("update_trigger", key, FALSE, NoTrigger, "",
                                  "TriggerNotFound")
            /\ UNCHANGED <<triggers, statics, trigger_cache, tm_file>>
       ELSE /\ tm_res' = TmResult("update_trigger", key, TRUE, NoTrigger, "",
                                  "")
            /\ triggers' = [triggers EXCEPT ![key] = trigger]
            /\ statics' = [statics EXCEPT ![key] = trigger]
            /\ trigger_cache' = [trigger_cache EXCEPT ![key] = trigger]
            /\ tm_file' = tm_save_state(triggers')
    /\ UNCHANGED <<registry, tm_built>>
    /\ UNCHANGED <<smVars, coreVars, avVars, rtVars, cacheVars, kmVars>>

\* remove_trigger(key)
TriggerMapManager_remove_trigger(key) ==
    /\ tm_ops < MaxTmOps
    /\ tm_built
    /\ tm_ops' = tm_ops + 1
    /\ IF ~triggers[key].has
       THEN /\ tm_res' = TmResult("remove_trigger", key, FALSE, NoTrigger, "",
                                  "TriggerNotFound")
            /\ UNCHANGED <<triggers, statics, trigger_cache, tm_file>>
       ELSE /\ tm_res' = TmResult("remove_trigger", key, TRUE, NoTrigger, "",
                                  "")
            /\ triggers' = [triggers EXCEPT ![key] = NoTrigger]
            /\ statics' = [statics EXCEPT ![key] = NoTrigger]
            /\ trigger_cache' = [k \in TmKeys |-> NoTrigger]
            /\ tm_file' = tm_save_state(triggers')
    /\ UNCHANGED <<registry, tm_built>>
    /\ UNCHANGED <<smVars, coreVars, avVars, rtVars, cacheVars, kmVars>>

\* no TriggerMapManager was constructed
TmIdle ==
    /\ registry = [loads |-> FALSE, technologies |-> {}]
    /\ triggers = [key \in TmKeys |-> NoTrigger]
    /\ statics = [key \in TmKeys |-> NoTrigger]
    /\ trigger_cache = [key \in TmKeys |-> NoTrigger]
    /\ tm_built = FALSE
    /\ tm_res = NoTmResult
    /\ tm_ops = 0
    /\ tm_file = TmNoFile

\* no call of the Cache was made: it is empty, its lock is free
CacheIdle ==
    /\ ttl_cache = [k \in CacheKeys |-> NoEntry]
    /\ cache_lock = 0
    /\ ttl = 1
    /\ clock = 0
    /\ cth = [t \in Threads |-> NoCacheCall]
    /\ latest = [k \in CacheKeys |-> NoEntry]
    /\ cache_ops = 0

\* AgentValidator.validate was not called
AvIdle == av_trigger = NoTriggerInfo

\* no wrapped function was called
RetryIdle ==
    /\ rt = [l \in Levels |-> NoWrapper]
    /\ rt_par = [n |-> max_attempts, d |-> delay, b |-> backoff]
    /\ rt_calls = 0

RestIdle == CacheIdle /\ KmIdle /\ TmIdle /\ AvIdle /\ RetryIdle

\* no validator and no factory was called
Idle ==
    /\ RestIdle
    /\ code = PText(<<>>)
    /\ validation = NoValidation
    /\ keywords = TriggerKeys
    /\ llm_cache = [c \in ClassNames |-> PNone]
    /\ req = NoRequest
    /\ out = NoOutput
    /\ steps = <<>>
    /\ agents = <<>>
    /\ result_cache = <<>>
    /\ calls = 0
    /\ LoaderIdle

(***************************************************************************)
(* Specifications                                                          *)
(***************************************************************************)
\* what the state file can hold when a StateManager is constructed over it
InitContents ==
    { Missing,
      <<>>,
      Text(JArr(<<>>)),
      Text(JObj(<< <<"keywords", JObj(<<>>)>> >>)),
      Text(JsonEncode(WithLastUpdated(EnsureDoc(0), 0))) }

InitFiles(c) ==
    /\ files = [primary |-> c, backup |-> Missing]
    /\ fd = [t \in Threads |-> "none"]

InitCommon ==
    /\ caller = [t \in Threads |-> "user"]
    /\ arg = [t \in Threads |-> PNone]
    /\ res = [t \in Threads |-> NoResult]
    /\ now = 0
    /\ crashes = 0
    /\ pre = [t \in Threads |-> <<Missing, Missing>>]
    /\ fault = [t \in Threads |-> "none"]
    /\ last = [t \in Threads |-> NoCall]
    /\ crashInfo = NoCrash

\* one caller, one StateManager, constructed over any file
Init ==
    /\ \E c \in InitContents : InitFiles(c)
    /\ lock = [i \in {1} |-> 0]
    /\ inst = [t \in Threads |-> 1]
    /\ pc = [t \in Threads |-> IF t = 1 THEN "new" ELSE "off"]
    /\ budget = [t \in Threads |-> IF t = 1 THEN MaxSeqOps ELSE 0]
    /\ InitCommon
    /\ Idle

SaveStep(t) ==
    \/ SaveAcquire(t)
    \/ SaveExists(t)
    \/ SaveRename(t)
    \/ SaveMetadata(t)
    \/ SaveOpen(t)
    \/ SaveDump1(t)
    \/ SaveDump2(t)
    \/ SaveBackupExists(t)
    \/ SaveUnlink(t)
    \/ SaveStepFails(t)
    \/ HandlerExists(t)
    \/ HandlerRename(t)
    \/ SaveReturn(t)

LoadStep(t) ==
    \/ LoadAcquire(t)
    \/ LoadRead(t)
    \/ LoadUnreadable(t)
    \/ LoadReturn(t)

Next ==
    \/ ensure_state_file(1)
    \/ \E state \in SaveInputs : save_state(1, state)
    \/ load_state(1)
    \/ SaveStep(1)
    \/ LoadStep(1)
    \/ Crash

Spec == Init /\ [][Next]_vars

\* the file a constructed StateManager left
ConstructedFile == Text(JsonEncode(WithLastUpdated(EnsureDoc(0), 0)))

InitThreads ==
    /\ InitFiles(ConstructedFile)
    /\ pc = [t \in Threads |-> "idle"]
    /\ budget = [t \in Threads |-> MaxConcOps]
    /\ InitCommon
    /\ Idle

\* two threads that call one StateManager
InitOneManager ==
    /\ InitThreads
    /\ lock = [i \in {1} |-> 0]
    /\ inst = [t \in Threads |-> 1]

\* two threads, each with a StateManager of its own on the same state_file
InitTwoManagers ==
    /\ InitThreads
    /\ lock = [i \in {1, 2} |-> 0]
    /\ inst = [t \in Threads |-> t]

NextThreads ==
    \E t \in Threads :
        \/ save_state(t, ConcInput(t))
        \/ load_state(t)
        \/ SaveStep(t)
        \/ LoadStep(t)

SpecOneManager == InitOneManager /\ [][NextThreads]_vars

SpecTwoManagers == InitTwoManagers /\ [][NextThreads]_vars

\* the StateManager of a constructed DynamicAgentFactory, with no call
InitStateManager ==
    /\ InitFiles(ConstructedFile)
    /\ pc = [t \in Threads |-> "idle"]
    /\ budget = [t \in Threads |-> 0]
    /\ lock = [i \in {1} |-> 0]
    /\ inst = [t \in Threads |-> 1]
    /\ InitCommon

\* CodeValidator().validate over every code string of the bound
InitValidator ==
    /\ InitStateManager
    /\ RestIdle
    /\ code \in Codes \cup {CodeResult(TRUE, PText(<<"x">>), FALSE)}
    /\ validation = NoValidation
    /\ keywords = TriggerKeys
    /\ llm_cache = [c \in ClassNames |-> PNone]
    /\ req = NoRequest
    /\ out = NoOutput
    /\ steps = <<>>
    /\ agents = <<>>
    /\ result_cache = <<>>
    /\ calls = 0
    /\ LoaderIdle

NextValidator == validate

SpecValidator == InitValidator /\ [][NextValidator]_vars

\* the persisted keywords a KeywordManager may have loaded before it went
\* over TRIGGER_MAP
InitKeywords == {TriggerKeys, <<(<<"cobol">>)>> \o TriggerKeys}

\* the persisted agents a KeywordManager may have loaded
InitAgents ==
    {<<>>, [k \in {<<"python">>} |-> AgentInfo(k, "Active", <<>>)]}

\* a constructed DynamicAgentFactory and its DynamicAgentFactoryLLM
InitPipeline ==
    /\ InitStateManager
    /\ RestIdle
    /\ code = PText(<<>>)
    /\ validation = NoValidation
    /\ keywords \in InitKeywords
    /\ llm_cache = [c \in ClassNames |-> PNone]
    /\ req = NoRequest
    /\ out = NoOutput
    /\ steps = <<>>
    /\ agents \in InitAgents
    /\ result_cache = <<>>
    /\ calls = 0
    /\ LoaderIdle

NextPipeline ==
    \/ \E data \in RunInputs, behaviour \in Behaviours :
           DynamicAgentFactoryLLM_run(data, behaviour)
    \/ \E data \in RunInputs, behaviour \in Behaviours :
           DynamicAgentFactory_run(data, behaviour)
    \/ \E tech \in {<<"python">>, <<"cobol">>}, behaviour \in Behaviours :
           DynamicAgentFactoryLLM_generate_agent(tech, behaviour)

SpecPipeline == InitPipeline /\ [][NextPipeline]_vars

\* a constructed DynamicAgentFactoryLLM whose _load_agent_class the threads
\* call, and a DynamicAgentFactory whose temp_dir holds a file left there
InitLoader ==
    /\ InitStateManager
    /\ RestIdle
    /\ code = PText(<<>>)
    /\ validation = NoValidation
    /\ keywords = TriggerKeys
    /\ llm_cache = [c \in ClassNames |-> PNone]
    /\ req = NoRequest
    /\ out = NoOutput
    /\ steps = <<>>
    /\ agents = <<>>
    /\ result_cache = <<>>
    /\ calls = 0
    /\ scratch = write_text(<<>>, FilePath(factory_temp_dir, "old", ".py"),
                           <<"x">>)
    /\ used = {}
    /\ loader = [t \in Threads |-> NoLoaderCall]
    /\ loads = 0

NextLoader ==
    \/ \E t \in Threads, code_str \in LoaderCodes :
           LoaderCall(t, code_str, TriggerOf(<<"python">>))
    \/ \E t \in Threads : LoaderName(t)
    \/ \E t \in Threads : LoaderWrite(t)
    \/ \E t \in Threads, write_bytecode \in BOOLEAN :
           LoaderImport(t, write_bytecode)
    \/ \E t \in Threads : LoaderFinally(t)
    \/ cleanup_temp_files

SpecLoader == InitLoader /\ [][NextLoader]_vars

\* a Cache(ttl) that the threads call while the time passes
InitCache ==
    /\ InitStateManager
    /\ code = PText(<<>>)
    /\ validation = NoValidation
    /\ keywords = TriggerKeys
    /\ llm_cache = [c \in ClassNames |-> PNone]
    /\ req = NoRequest
    /\ out = NoOutput
    /\ steps = <<>>
    /\ agents = <<>>
    /\ result_cache = <<>>
    /\ calls = 0
    /\ LoaderIdle
    /\ ttl_cache = [k \in CacheKeys |-> NoEntry]
    /\ cache_lock = 0
    /\ ttl \in 1..MaxTTL
    /\ clock = 0
    /\ cth = [t \in Threads |-> NoCacheCall]
    /\ latest = [k \in CacheKeys |-> NoEntry]
    /\ cache_ops = 0
    /\ KmIdle
    /\ TmIdle
    /\ AvIdle
    /\ RetryIdle

NextCache ==
    \/ \E t \in Threads, key \in CacheKeys : Cache_call(t, "get", key, "None")
    \/ \E t \in Threads, key \in CacheKeys, value \in CacheValues :
           Cache_call(t, "set", key, value)
    \/ \E t \in Threads : Cache_call(t, "clear", "a", "None")
    \/ \E t \in Threads : Lock_enter(t)
    \/ \E t \in Threads : Cache_get_lookup(t)
    \/ \E t \in Threads : Cache_get_entry(t)
    \/ \E t \in Threads : Cache_get_del(t)
    \/ \E t \in Threads : Cache_set(t)
    \/ \E t \in Threads : Cache_clear(t)
    \/ \E t \in Threads : Lock_exit(t)
    \/ Tick

SpecCache == InitCache /\ [][NextCache]_vars

\* the arguments of the calls of a KeywordManager
KmKeywords == {<<"python">>, <<"cobol">>}

AddInputs ==
    {<<"python">>, <<"PYTHON">>, <<"cobol">>, <<"my", " ", "kw">>,
     <<"cobol", "\n">>}

MetaInputs ==
    {MetaNone, Metadata(EmptyDict), Metadata([k \in {"a"} |-> "1"]),
     Metadata([k \in {"a", "b"} |-> IF k = "a" THEN "2" ELSE "tuple"]),
     Metadata([k \in {"b"} |-> "set"])}

\* status and error of update_agent_status
StatusInputs == {<<"active", "None">>, <<"error", "boom">>, <<"error", "">>}

Crashes == {"none", "renamed", "opened"}

Texts ==
    {<<"x">>, <<"cobol", " ", "python">>, <<"React", " ", "python">>,
     <<"ci", " ", "python">>, <<"ci", " ", "cd", " ", "python">>}

\* the state file before the first KeywordManager: none, or one that an
\* earlier process has left, with a keyword of its own and an agent
InitKmFiles ==
    {KmFiles(KmNoFile, KmNoFile),
     KmFiles(KmDoc(sync_with_trigger_map(
                       <<KeywordEntry(<<"cobol">>, "description")>>),
                   [k \in {<<"python">>} |->
                       AgentInfoAt(k, "Active", 0, 0, MetaNone, <<>>)]),
             KmNoFile)}

\* a KeywordManager constructed over the state file
InitKM ==
    /\ InitStateManager
    /\ code = PText(<<>>)
    /\ validation = NoValidation
    /\ keywords = TriggerKeys
    /\ llm_cache = [c \in ClassNames |-> PNone]
    /\ req = NoRequest
    /\ out = NoOutput
    /\ steps = <<>>
    /\ agents = <<>>
    /\ result_cache = <<>>
    /\ calls = 0
    /\ LoaderIdle
    /\ CacheIdle
    /\ \E f \in InitKmFiles :
          /\ km = [i \in Managers |->
                      IF i = 1 THEN KeywordManager_init(f).mem ELSE KmDead]
          /\ km_fs = KeywordManager_init(f).fs
    /\ km_res = NoKmCall
    /\ km_ops = 0
    /\ kth = [t \in Threads |-> NoKmThread]
    /\ TmIdle
    /\ AvIdle
    /\ RetryIdle

NextKM ==
    \/ \E i \in Managers : KeywordManager_new(i)
    \/ \E i \in Managers, keyword \in AddInputs, crash \in Crashes :
           KeywordManager_add_keyword(i, keyword, crash)
    \/ \E i \in Managers, keyword \in KmKeywords, crash \in Crashes :
           KeywordManager_remove_keyword(i, keyword, crash)
    \/ \E i \in Managers, keyword \in KmKeywords, metadata \in MetaInputs,
          crash \in Crashes :
           KeywordManager_get_agent(i, keyword, metadata, crash)
    \/ \E i \in Managers, keyword \in KmKeywords, se \in StatusInputs,
          crash \in Crashes :
           KeywordManager_update_agent_status(i, keyword, se[1], se[2], crash)
    \/ \E i \in Managers, input_text \in Texts :
           KeywordManager_detect_keyword(i, input_text)

SpecKM == InitKM /\ [][NextKM]_vars

\* the methods that the threads call
ThreadOps ==
    {"add_keyword", "remove_keyword", "get_agent", "update_agent_status"}

NextKMThreads ==
    \/ \E t \in Threads, op \in ThreadOps, keyword \in KmKeywords,
          metadata \in {MetaNone} :
           KeywordManager_thread_call(t, op, keyword, metadata)
    \/ \E t \in Threads : KeywordManager_thread_state(t)
    \/ \E t \in Threads : KeywordManager_thread_save(t)

\* the threads of one process call the KeywordManager it constructed
SpecKMThreads == InitKM /\ [][NextKMThreads]_vars

\* the technologies that the state file of TechStackAnalyzer can hold
Technologies ==
    {TechInfo("Python", "language", "backend", TRUE),
     TechInfo("React", "framework", "frontend", TRUE),
     TechInfo("go", "language", "backend", FALSE)}

\* the triggers handed to add_trigger and update_trigger
TriggerInputs ==
    {TriggerMapInfo("MyAnalyzer", "added by a call", <<"typing">>)}

\* a technology registry, loadable or not, before the module-level
\* TriggerMapManager() is constructed
InitTriggerMap ==
    /\ InitStateManager
    /\ code = PText(<<>>)
    /\ validation = NoValidation
    /\ keywords = TriggerKeys
    /\ llm_cache = [c \in ClassNames |-> PNone]
    /\ req = NoRequest
    /\ out = NoOutput
    /\ steps = <<>>
    /\ agents = <<>>
    /\ result_cache = <<>>
    /\ calls = 0
    /\ LoaderIdle
    /\ CacheIdle
    /\ KmIdle
    /\ AvIdle
    /\ RetryIdle
    /\ registry \in
          {[loads |-> FALSE, technologies |-> {}]}
          \cup {[loads |-> TRUE, technologies |-> techs] :
                   techs \in SUBSET Technologies \ {{}}}
    /\ triggers = [key \in TmKeys |-> NoTrigger]
    /\ statics = [key \in TmKeys |-> NoTrigger]
    /\ trigger_cache = [key \in TmKeys |-> NoTrigger]
    /\ tm_built = FALSE
    /\ tm_res = NoTmResult
    /\ tm_ops = 0
    /\ tm_file = TmNoFile

NextTriggerMap ==
    \/ TriggerMapManager_new
    \/ \E key \in TmKeys, expired \in BOOLEAN :
           TriggerMapManager_get_trigger(key, expired)
    \/ \E key \in TmKeys, trigger \in TriggerInputs :
           TriggerMapManager_add_trigger(key, trigger)
    \/ \E key \in TmKeys, trigger \in TriggerInputs :
           TriggerMapManager_update_trigger(key, trigger)
    \/ \E key \in TmKeys : TriggerMapManager_remove_trigger(key)

SpecTriggerMap == InitTriggerMap /\ [][NextTriggerMap]_vars

\* the import statements at the head of the code strings
AvImports ==
    {<<>>,
     <<"import", " ", "ast", "\n">>,
     <<"import", " ", "pylint", "\n">>,
     <<"import", " ", "ast", "\n", "import", " ", "pylint", "\n">>,
     <<"from", " ", "ast", " ", "import", " ", "x", "\n",
       "from", " ", "pylint", " ", "import", " ", "x", "\n">>,
     <<"import", " ", "ast", "\n", "from", " ", "pylint", "\n">>,
     <<"import", " ", "esprima", "\n", "import", " ", "eslint", "\n">>}

\* the methods of the class in the code strings
AvBodies ==
    {AgentBody,
     <<"def", " ", "__init__", "(", ")", ":", "super", "(", ")", ".",
       "__init__", "(", ")">>,
     <<"def", " ", "run", "(", ")", ":", "x">>}

\* what follows the class in the code strings
AvTails ==
    {<<>>, <<"\n", "eval", " ", "(", "x", ")">>,
     <<"\n", "os", ".", "system", "(", "x", ")">>}

\* the code strings handed to AgentValidator.validate
AvCodes ==
    {PText(imports
               \o <<"class", " ", "PythonAnalyzer", "(", base, ")", ":", "\n">>
               \o body \o tail) :
        imports \in AvImports, base \in {"MicroAgent", "object"},
        body \in AvBodies, tail \in AvTails}

\* the trigger_info handed to AgentValidator.validate: two entries of
\* TRIGGER_MAP and a TriggerInfo without required_imports
AvTriggers ==
    {TriggerOf(<<"python">>), TriggerOf(<<"react">>),
     TriggerInfo(<<"plain">>, "PlainAnalyzer", <<>>)}

\* AgentValidator().validate over the code strings and trigger_infos above
InitAgentValidator ==
    /\ InitStateManager
    /\ code \in AvCodes
    /\ validation = NoValidation
    /\ keywords = TriggerKeys
    /\ llm_cache = [c \in ClassNames |-> PNone]
    /\ req = NoRequest
    /\ out = NoOutput
    /\ steps = <<>>
    /\ agents = <<>>
    /\ result_cache = <<>>
    /\ calls = 0
    /\ LoaderIdle
    /\ CacheIdle
    /\ KmIdle
    /\ TmIdle
    /\ av_trigger \in AvTriggers
    /\ RetryIdle

NextAgentValidator == AgentValidator_call

SpecAgentValidator == InitAgentValidator /\ [][NextAgentValidator]_vars

\* the required elements of AgentValidator as they stand in a code string,
\* and pieces that hold only a part of one
MarkerPieces ==
    [i \in 1..Len(required_elements) |-> required_elements[i].element \o <<"\n">>]

PartPieces ==
    {<<>>, <<"def", " ", "x", "\n">>, <<"super", "(", ")", "\n">>,
     <<"__init__", "\n">>}

\* the pieces of the elements in present, in the order of the list or in
\* the opposite order
RECURSIVE PiecesOf(_, _, _)
PiecesOf(present, i, forward) ==
    IF i > Len(MarkerPieces) THEN <<>>
    ELSE LET piece == IF i \in present THEN MarkerPieces[i] ELSE <<>>
         IN  IF forward THEN piece \o PiecesOf(present, i + 1, forward)
             ELSE PiecesOf(present, i + 1, forward) \o piece

\* the code strings handed to StructureValidator.validate: every subset of
\* the required elements, in both orders, before a partial element or none
StructureCodes ==
    {PText(PiecesOf(present, 1, forward) \o part) :
        present \in SUBSET (1..Len(required_elements)),
        forward \in BOOLEAN, part \in PartPieces}

\* StructureValidator.validate over the code strings above
InitStructure ==
    /\ InitStateManager
    /\ RestIdle
    /\ code \in StructureCodes
    /\ validation = NoValidation
    /\ keywords = TriggerKeys
    /\ llm_cache = [c \in ClassNames |-> PNone]
    /\ req = NoRequest
    /\ out = NoOutput
    /\ steps = <<>>
    /\ agents = <<>>
    /\ result_cache = <<>>
    /\ calls = 0
    /\ LoaderIdle

NextStructure == StructureValidator_call

SpecStructure == InitStructure /\ [][NextStructure]_vars

\* the parameters of retry: max_attempts >= 1, delay and backoff not negative
MaxAttempts == 3

MaxDelay == 2

MaxBackoff == 2

RetryParams ==
    {[n |-> n, d |-> d, b |-> b] :
        n \in 1..MaxAttempts, d \in 0..MaxDelay, b \in 0..MaxBackoff}

\* every variable but those of the wrappers, with nothing called
InitNoRetry ==
    /\ InitStateManager
    /\ code = PText(<<>>)
    /\ validation = NoValidation
    /\ keywords = TriggerKeys
    /\ llm_cache = [c \in ClassNames |-> PNone]
    /\ req = NoRequest
    /\ out = NoOutput
    /\ steps = <<>>
    /\ agents = <<>>
    /\ result_cache = <<>>
    /\ calls = 0
    /\ LoaderIdle
    /\ CacheIdle
    /\ KmIdle
    /\ TmIdle
    /\ AvIdle
    /\ rt = [l \in Levels |-> NoWrapper]
    /\ rt_calls = 0

\* retry(max_attempts, delay, backoff) over the parameters above
InitRetry ==
    /\ InitNoRetry
    /\ rt_par \in RetryParams

\* what the running call does next
RetrySteps ==
    \/ \E l \in Levels : retry_while(l)
    \/ \E l \in Levels : func_returns(l)
    \/ \E l \in Levels, kind \in {"caught", "other"} : func_raises(l, kind)
    \/ \E l \in Levels : retry_except(l)
    \/ \E l \in Levels : retry_sleep(l)
    \/ run_calls_generate_code
    \/ generate_code_ends

NextRetry ==
    \/ retry_call
    \/ RetrySteps

SpecRetry == InitRetry /\ [][NextRetry]_vars

\* the decorators of DynamicAgentFactory.run and _generate_code:
\* retry(max_attempts=3, delay=1.0, backoff=2.0)
InitRun ==
    /\ InitNoRetry
    /\ rt_par = [n |-> max_attempts, d |-> delay, b |-> backoff]

\* the interpreter goes on with the call it runs, a sleep ends, and an
\* invocation of the wrapped function returns or raises
SpecRun == InitRun /\ [][NextRetry]_vars /\ WF_vars(RetrySteps)

(***************************************************************************)
(* Properties of StateManager                                              *)
(***************************************************************************)
\* the steps of the try block that come after the rename to the backup
AfterRename == {"meta", "s_open", "s_dump1", "s_dump2", "dump2", "s_unlink", "unlink"}

\* C5: when save_state fails at a step after the current file was renamed
\* to the backup, it returns a failed result with a StateError (it does not
\* raise), the backup is back at the primary path, and what load_state
\* reads is what was there before the save.
SaveFailureRestoresBackup ==
    \A t \in Threads :
        (pc[t] = "s_ret" /\ pre[t][1] # Missing /\ fault[t] \in AfterRename)
        => /\ res[t] = StateErrorResult("save")
           /\ Content("primary") = pre[t][1]
           /\ ~Exists("backup")
           /\ load_body(Content("primary"), TRUE) = load_body(pre[t][1], TRUE)

\* a save of a document over a loadable file failed in the middle of the write
SaveFailedMidWrite ==
    /\ pc[1] = "s_ret"
    /\ fault[1] = "s_dump2"
    /\ load_body(pre[1][1], TRUE).success
    /\ ~res[1].success

\* what load_state returns for data once json has written and read `state`
StoredData(state) ==
    DictGet(JsonDecode(JsonEncode(state)), PStr("data"), PNone)

\* C6: after the process stopped inside save_state (of a caller, over a
\* loadable file, no step having failed) and was started again, load_state
\* returns the complete state from before the save or the complete new one.
CrashLeavesOldOrNew ==
    (pc[1] = "l_ret" /\ fault[1] # "read" /\ crashInfo.inSave
        /\ load_body(crashInfo.pre, TRUE).success)
    => /\ res[1].success
       /\ res[1].data \in {load_body(crashInfo.pre, TRUE).data,
                           StoredData(crashInfo.new)}

\* json writes and reads p unchanged: str keys, no tuple, nothing it rejects
RECURSIVE JsonNative(_)
JsonNative(p) ==
    CASE p.k \in {"str", "int", "none"} -> TRUE
      [] p.k = "list" -> \A i \in 1..Len(p.q) : JsonNative(p.q[i])
      [] p.k = "dict" ->
            \A i \in 1..Len(p.q) : p.q[i][1].k = "str" /\ JsonNative(p.q[i][2])
      [] OTHER -> FALSE

\* a well-formed state: a document with the data key, of JSON's own values
WellFormed(state) ==
    /\ state.k = "dict"
    /\ HasKey(state, PStr("data"))
    /\ JsonNative(state)
    /\ DictGet(state, PStr("metadata"), PDict(<<>>)).k = "dict"

\* C7: after save_state(S) succeeded for a well-formed S, load_state
\* succeeds and returns S's data and S's metadata (as save_state left them
\* in S, with last_updated set).
RoundTrip ==
    (pc[1] = "l_ret" /\ fault[1] # "read" /\ last[1].op = "save" /\ last[1].ok
        /\ WellFormed(last[1].state))
    => /\ res[1].success
       /\ res[1].data = DictGet(last[1].state, PStr("data"), PNone)
       /\ res[1].metadata = DictGet(last[1].state, PStr("metadata"), PNone)

\* a document with metadata of its own was saved and loaded again
RoundTripDone ==
    /\ pc[1] = "l_ret"
    /\ last[1].op = "save"
    /\ last[1].ok
    /\ DictGet(last[1].state, PStr("data"), PNone)
         = DictGet(GoodDocWithMetadata, PStr("data"), PNone)
    /\ res[1].success

\* load_state has nothing to return for the content c
NotLoadable(c) ==
    \/ c = Missing
    \/ ~ValidJson(c)
    \/ JsonDecode(c[1].doc).k # "dict"
    \/ ~HasKey(JsonDecode(c[1].doc), PStr("data"))

\* C10: load_state does not raise; over a file that is missing, unreadable,
\* no JSON, no object or without the data key it returns a failed result
\* with a StateError; and it leaves both paths as they were.
LoadNeverRaises ==
    \A t \in Threads :
        pc[t] = "l_ret"
        => /\ ~res[t].raised
           /\ files = [primary |-> pre[t][1], backup |-> pre[t][2]]
           /\ (NotLoadable(pre[t][1]) \/ fault[t] = "read")
                 => res[t] = StateErrorResult("load")

\* load_state returned over a file whose JSON is no object
LoadOfNonObject ==
    /\ pc[1] = "l_ret"
    /\ pre[1][1] = Text(JArr(<<>>))
    /\ res[1] = StateErrorResult("load")

\* the thread is inside `with self.lock` of save_state or load_state
InCriticalSection(t) == InSave(t) \/ pc[t] = "l_read"

\* the data of the documents the file can hold under SpecOneManager
SavedData ==
    {StoredData(EnsureDoc(0))} \cup {StoredData(ConcInput(t)) : t \in Threads}

\* C8: on one StateManager at most one thread is inside save_state or
\* load_state, and a load_state that runs beside a save_state returns a
\* complete document, the one saved before or the new one.
OneInCriticalSection ==
    /\ Cardinality({t \in Threads : InCriticalSection(t)}) <= 1
    /\ \A t \in Threads :
          (pc[t] = "l_ret" /\ fault[t] # "read")
          => res[t].success /\ res[t].data \in SavedData

\* a load_state waits for the lock while a save_state has the file half written
LoadWaitsForSave ==
    /\ pc[1] = "s_dump2"
    /\ pc[2] = "l_acquire"
    /\ ~ValidJson(Content("primary"))

\* the step failures that are injected I/O errors
Injected == {"s_rename", "s_open", "s_dump1", "s_dump2", "s_unlink", "read"}

\* the file save_state(ConcInput(t)) writes
SavedText(t) == Text(JsonEncode(WithLastUpdated(ConcInput(t), now)))

\* C9: two StateManagers on one file, one save_state each and no I/O error:
\* once both have returned the primary file holds one of the two documents,
\* and a document whose save succeeded if there is one.
TwoManagersNeverCorrupt ==
    (\A t \in Threads : pc[t] = "idle" /\ last[t].op = "save"
                        /\ last[t].fault \notin Injected)
    => /\ Content("primary") \in {SavedText(t) : t \in Threads}
       /\ (\E t \in Threads : last[t].ok)
             => Content("primary") \in {SavedText(t) : t \in {u \in Threads : last[u].ok}}

(***************************************************************************)
(* Properties of the validators and of the factories                       *)
(***************************************************************************)
\* the deny-list entries as they are written out: os.system, subprocess,
\* eval(, exec(, __import__, open(, socket., requests., urllib
DenyList ==
    { <<"os", ".", "system">>, <<"subprocess">>, <<"eval", "(">>,
      <<"exec", "(">>, <<"__import__">>, <<"open", "(">>,
      <<"socket", ".">>, <<"request", "s", ".">>, <<"urllib">> }

HasDenied(q) == \E entry \in DenyList : Contains(q, entry)

\* the pattern the failed result names is one that occurs in the text
NamesMatchedPattern(v, q) ==
    /\ v.exc = "none"
    /\ ~v.success
    /\ v.details.key = "pattern"
    /\ \E i \in 1..Len(forbidden_patterns) :
          /\ v.details.val = <<forbidden_patterns[i].pattern>>
          /\ re_search(forbidden_patterns[i].re, q)

\* C2: CodeValidator.validate fails for every code string in which an entry
\* of the deny list occurs anywhere, with a ValidationError whose details
\* name a pattern that matches the string, and it succeeds only for a
\* string in which no entry occurs.
DenyListRejected ==
    (validation # NoValidation /\ code.k = "str") =>
        /\ HasDenied(code.q) => NamesMatchedPattern(validation, code.q)
        /\ validation.success => ~HasDenied(code.q)
        /\ validation.exc = "none"

\* os.system between other fragments was validated and rejected by name
DeniedCodeRejected ==
    /\ code = PText(<<"x", "os", ".", "system">>)
    /\ validation # NoValidation
    /\ ~validation.success
    /\ validation.details = [key |-> "pattern",
                             val |-> <<"os\\s*\\.\\s*system">>]

\* the last call went through generate_agent and _generate_code gave code
Generated ==
    /\ req.op \in {"generate_agent", "DynamicAgentFactoryLLM.run"}
    /\ req.gen.k = "OperationResult"
    /\ req.gen.success

RequestedTrigger == TriggerOf(lower(req.data.kw.q))

SecurityAndStructure(c) ==
    IF ~CodeValidator_validate(c).success THEN CodeValidator_validate(c)
    ELSE StructureValidator_validate(c)

\* C1: generate_agent loads code only after the security and the structure
\* validation of that code passed, and when a validation of the generated
\* code fails the attempt ends in an error result that carries the
\* validation error's details, with no loading step.
ValidationGatesLoading ==
    Generated =>
        LET v == SecurityAndStructure(req.gen.data)
        IN  /\ (\E i \in 1..Len(steps) : steps[i] = "load_agent_class")
                   => v.success
            /\ ~v.success =>
                   /\ out.exc = "none"
                   /\ out.status = "error"
                   /\ out.details = v.details
                   /\ \A i \in 1..Len(steps) : steps[i] # "load_agent_class"

\* the code is one the validators pass and that defines the trigger's class
\* as a MicroAgent subclass
ValidAgent(c, trigger_info) ==
    /\ c.k = "str"
    /\ CodeValidator_validate(c).success
    /\ StructureValidator_validate(c).success
    /\ DefinesAgent(c.q, trigger_info.class_name)

\* the last call asked for a keyword of the catalog
CatalogRequest ==
    /\ req.op # "none"
    /\ req.data.has
    /\ req.data.kw.k = "str"
    /\ InTriggerMap(lower(req.data.kw.q))

\* C3: for a keyword of the catalog and a language model that returns valid
\* code, the generation ends with status "success" (from
\* DynamicAgentFactory.run: a result) and a non-null agent_class.
ValidCodeSucceeds ==
    /\ (Generated /\ ValidAgent(req.gen.data, RequestedTrigger)) =>
           /\ out.exc = "none"
           /\ out.status = "success"
           /\ out.agent_class = RequestedTrigger.class_name
    /\ (/\ CatalogRequest
        /\ req.op = "DynamicAgentFactory.run"
        /\ req.llm = "valid"
        /\ llm_cache[RequestedTrigger.class_name]
               \in {PNone, LLMContent("valid", RequestedTrigger)}) =>
           /\ out.exc = "none"
           /\ out.agent_class = RequestedTrigger.class_name

\* C4: DynamicAgentFactory.run and DynamicAgentFactoryLLM.run return a
\* structured result for every input map; no exception leaves them.
RunNeverRaises ==
    req.op \in {"DynamicAgentFactory.run", "DynamicAgentFactoryLLM.run"} =>
        /\ out.exc = "none"
        /\ out.status \in {"success", "active", "error"}

\* the calls of the language model client and the sleeps of a retry wrapper
IsClientStep(e) == e \in {"llm.chat", Sleep(delay), Sleep(delay * backoff)}

ClientSteps == SelectSeq(steps, IsClientStep)

\* the last call reached the client and the client raised
ClientRaised ==
    /\ req.op \in {"generate_agent", "DynamicAgentFactoryLLM.run"}
    /\ req.llm = "raises"
    /\ \E i \in 1..Len(steps) : steps[i] = "llm.chat"

\* C11: when the client raises on every call, one generation attempt calls
\* the client exactly 3 times, waiting 1.0 s and then 2.0 s between the
\* calls, and the factory then reports a CodeGenerationError.
ThreeClientCallsThenError ==
    ClientRaised =>
        /\ ClientSteps = <<"llm.chat", Sleep(delay), "llm.chat",
                           Sleep(delay * backoff), "llm.chat">>
        /\ out.exc = "none"
        /\ out.status = "error"
        /\ out.error_type = "CodeGenerationError"

IsBodyStep(e) == e = "run"

IsSleepStep(e) == e \in {Sleep(delay), Sleep(delay * backoff)}

\* the last call was DynamicAgentFactory.run and it returned an error result
FactoryRunError ==
    /\ req.op = "DynamicAgentFactory.run"
    /\ out.exc = "none"
    /\ out.status = "error"

\* C12: when DynamicAgentFactory.run ends with an input-validation error or
\* an unknown-technology error, its body ran exactly once: the retry wrapper
\* did not run it again and slept for no back-off delay.
ErrorResultsAreNotRetried ==
    (/\ FactoryRunError
     /\ \/ out.error_type = "ValidationError"
        \/ out.error = "Unknown technology") =>
        /\ Len(SelectSeq(steps, IsBodyStep)) = 1
        /\ SelectSeq(steps, IsSleepStep) = <<>>

\* run was called with a keyword no keyword of the manager shares a word
\* with, and returned the unknown-technology error after one run of the body
UnknownTechnologyReturned ==
    /\ FactoryRunError
    /\ req.data = Data(TRUE, PText(<<"cobol">>))
    /\ out.error = "Unknown technology"
    /\ steps = <<"run", "validate_input", "result_cache.get",
                 "detect_keyword", "cleanup_temp_files">>

\* the last call was given a keyword with no entry of the catalog: a
\* technology TRIGGER_MAP does not hold, or for DynamicAgentFactory.run a
\* text in which detect_keyword finds no keyword or finds a keyword of the
\* manager that TRIGGER_MAP does not hold
NoCatalogEntry ==
    /\ req.op # "none"
    /\ validate_input(req.data).success
    /\ IF req.op = "DynamicAgentFactory.run"
       THEN LET detected == detect_keyword(lower(req.data.kw.q), keywords)
            IN  ~detected.found \/ ~InTriggerMap(detected.keyword)
       ELSE ~InTriggerMap(lower(req.data.kw.q))

\* C13: a keyword with no catalog entry yields an error result of the
\* unknown-technology kind with a null agent_class, and the language model
\* is never called.
UnknownTechnologyReported ==
    NoCatalogEntry =>
        /\ out.exc = "none"
        /\ out.status = "error"
        /\ out.error = "Unknown technology"
        /\ out.agent_class = "None"
        /\ \A i \in 1..Len(steps) : steps[i] # "llm.chat"

\* the last call was DynamicAgentFactory.run with technology_keyword
\* missing, not a string, or empty after strip()
InvalidInput ==
    /\ req.op = "DynamicAgentFactory.run"
    /\ \/ ~req.data.has
       \/ req.data.kw.k # "str"
       \/ \A i \in 1..Len(req.data.kw.q) : req.data.kw.q[i] \in {" ", "\n"}

\* what run does after the validation of its input
AfterValidation ==
    {"result_cache.get", "detect_keyword", "get_agent", "llm_factory.run",
     "generate_code", "llm.chat", "update_agent_status"}

\* C14: when technology_keyword is missing, not a string, or empty or
\* whitespace, DynamicAgentFactory.run returns an error result carrying a
\* ValidationError at once: with no result-cache lookup, no keyword
\* detection, no KeywordManager update and no call of the language model.
InvalidInputRejectedAtOnce ==
    InvalidInput =>
        /\ out.exc = "none"
        /\ out.status = "error"
        /\ out.error_type = "ValidationError"
        /\ out.agent_class = "None"
        /\ \A i \in 1..Len(steps) : steps[i] \notin AfterValidation

\* run was called with a keyword of one space and returned the validation
\* error straight after _validate_input
BlankKeywordRejected ==
    /\ req.op = "DynamicAgentFactory.run"
    /\ req.data = Data(TRUE, PText(<<" ">>))
    /\ out.error = "technology_keyword cannot be empty"
    /\ out.error_type = "ValidationError"
    /\ steps = <<"run", "validate_input", "cleanup_temp_files">>

\* the keyword detect_keyword returns for the text of the last call
Detected == detect_keyword(lower(req.data.kw.q), keywords)

\* the last call was DynamicAgentFactory.run and it resolved a keyword
KeywordResolved ==
    /\ req.op = "DynamicAgentFactory.run"
    /\ validate_input(req.data).success
    /\ Detected.found

\* C15: once the keyword is resolved, a generation attempt updates that
\* keyword's AgentInfo before run returns: to "active" on success, and on
\* every error path to "error" with the message appended to error_history.
AgentInfoFollowsOutcome ==
    KeywordResolved =>
        /\ \E i \in 1..Len(steps) : steps[i] = "update_agent_status"
        /\ Detected.keyword \in DOMAIN agents
        /\ LET agent == agents[Detected.keyword]
           IN  IF out.exc = "none" /\ out.agent_class # "None"
               THEN agent.status = "active"
               ELSE /\ agent.status = "error"
                    /\ agent.error_history # <<>>
                    /\ agent.error_history[Len(agent.error_history)]
                           = out.error

\* the last call was DynamicAgentFactory.run for a keyword of the catalog,
\* with a language model that returns valid code and an llm_cache that holds
\* nothing else for it: the conditions under which the run is to succeed
RunToSucceed ==
    /\ CatalogRequest
    /\ req.op = "DynamicAgentFactory.run"
    /\ req.llm = "valid"
    /\ llm_cache[RequestedTrigger.class_name]
           \in {PNone, LLMContent("valid", RequestedTrigger)}

\* the step is a call of DynamicAgentFactory.run with the keyword of the
\* last call (the options are the default ones in every call)
SameRunAgain ==
    /\ calls' = calls + 1
    /\ req'.op = "DynamicAgentFactory.run"
    /\ validate_input(req'.data).success
    /\ lower(req'.data.kw.q) = lower(req.data.kw.q)

\* what run does after the lookup in result_cache
AfterResultCache ==
    {"detect_keyword", "get_agent", "llm_factory.run", "generate_code",
     "llm.chat", "validate_security", "validate_structure",
     "load_agent_class", "update_agent_status"}

\* C19: after DynamicAgentFactory.run succeeded for a keyword and options,
\* a later run of the same instance with the same keyword and options
\* returns the cached result of the first, a success, straight from
\* result_cache, without running the language model, the validators or the
\* loader.
RepeatedRunServedFromCache ==
    [][(RunToSucceed /\ SameRunAgain) =>
          /\ out' = out
          /\ out'.exc = "none"
          /\ out'.agent_class = RequestedTrigger.class_name
          /\ \E i \in 1..Len(steps') : steps'[i] = "result_cache.get"
          /\ \A i \in 1..Len(steps') : steps'[i] \notin AfterResultCache]_vars

\* the step is a call that went through _generate_code
GenerateCodeCalled ==
    /\ calls' = calls + 1
    /\ req'.gen.k = "OperationResult"

\* the llm_cache key of the call the step made
CalledClass == TriggerOf(lower(req'.data.kw.q)).class_name

\* C20: _generate_code calls the client at most once for a prompt: once a
\* call of the client returned, every repeated request returns the same code
\* from llm_cache with cache_hit set and without a call of the client; a
\* call of the client that raised stores nothing.
ClientCalledOncePerPrompt ==
    [][GenerateCodeCalled =>
          /\ llm_cache[CalledClass] # PNone =>
                 /\ req'.gen.success
                 /\ req'.gen.cache_hit
                 /\ req'.gen.data = llm_cache[CalledClass]
                 /\ \A i \in 1..Len(steps') : steps'[i] # "llm.chat"
                 /\ llm_cache' = llm_cache
          /\ (llm_cache[CalledClass] = PNone /\ req'.llm = "raises") =>
                 llm_cache' = llm_cache]_vars

\* the call of _load_agent_class by thread t has returned or raised
LoaderDone(t) == loader[t].pc = "done"

HoldsScratchFile(t) == loader[t].pc \in {"write", "import", "finally"}

\* C17: two attempts for the same keyword that run at the same time use
\* different scratch files and each imports exactly the code it wrote:
\* between the write and the import its scratch file is there with the text
\* it wrote, whatever the other attempt and the temporary-file cleanup of
\* another run do.
AttemptsDoNotInterfere ==
    /\ \A t, u \in Threads :
           (t # u /\ HoldsScratchFile(t) /\ HoldsScratchFile(u))
               => loader[t].temp_file # loader[u].temp_file
    /\ \A t \in Threads :
           /\ loader[t].pc = "import" =>
                  /\ loader[t].temp_file \in DOMAIN scratch
                  /\ scratch[loader[t].temp_file] = loader[t].code_str.q
           /\ loader[t].module # PNone =>
                  loader[t].module = loader[t].code_str
           /\ loader[t].e.exc # "FileNotFoundError"

\* thread 2 is about to import the scratch file it wrote after thread 1,
\* which loaded other code for the same trigger, deleted its own scratch
\* file and returned, and after a cleanup emptied the other temp_dir
ImportAfterOtherAttemptEnded ==
    /\ loader[1].pc = "done"
    /\ loader[1].module # PNone
    /\ loader[2].pc = "import"
    /\ loader[2].code_str # loader[1].code_str
    /\ loader[2].trigger_info = loader[1].trigger_info
    /\ loader[1].temp_file \notin DOMAIN scratch
    /\ loader[2].temp_file \in DOMAIN scratch
    /\ TempFiles(scratch) = {}

\* the scratch source files in a set of paths
SourceFiles(paths) == {p \in paths : p.suffix = ".py"}

\* C18: every failure of _load_agent_class (the import fails, the class is
\* missing or is not a MicroAgent subclass) is an AgentGenerationError of
\* error_type ClassLoadingError, and it is final: the call ends with it
\* after at most one scratch file, with no second try.
LoadFailuresAreClassLoadingErrors ==
    \A t \in Threads :
        (LoaderDone(t) /\ loader[t].res.exc # "none") =>
            /\ loader[t].res.exc = "AgentGenerationError"
            /\ loader[t].res.error_type = "ClassLoadingError"
            /\ loader[t].res.agent_class = "None"
            /\ Cardinality(SourceFiles(loader[t].created)) <= 1

\* a call given a class that does not derive from MicroAgent has ended with
\* the ClassLoadingError that wraps the error of the issubclass check
WrongBaseFailedToLoad ==
    \E t \in Threads :
        /\ LoaderDone(t)
        /\ loader[t].code_str
               = PText(AgentCode(TriggerOf(<<"python">>), "object"))
        /\ loader[t].res.exc = "AgentGenerationError"
        /\ loader[t].res.error_type = "ClassLoadingError"
        /\ loader[t].res.error =
               "Class loading failed: Generated class does not inherit from MicroAgent"

(***************************************************************************)
(* Properties of Cache                                                     *)
(***************************************************************************)
\* thread t is about to return from get
GetReturning(t) == cth[t].pc = "exit" /\ cth[t].op = "get"

\* C21: for a Cache with ttl T, after set(k, v) at time t with no later set
\* or clear of k, get(k) returns v at every time before t + T, however many
\* gets happened in between, and at every time after t + T get(k) returns
\* absent and has removed the entry from the cache.
ReadsDoNotExtendLifetime ==
    \A t \in Threads :
        GetReturning(t) /\ latest[cth[t].key].has =>
            LET e == latest[cth[t].key]
            IN  /\ cth[t].at < e.timestamp + ttl =>
                    cth[t].exc = "none" /\ cth[t].res = e.value
                /\ cth[t].at > e.timestamp + ttl =>
                    /\ cth[t].exc = "none"
                    /\ cth[t].res = "None"
                    /\ ~ttl_cache[cth[t].key].has

\* thread 1 has read the value of a set before its ttl had passed, and
\* thread 2 reads the same key after it: absent, and the entry is gone
ReadThenExpired ==
    /\ cth[1].pc = "done" /\ cth[1].op = "get" /\ cth[1].key = "a"
    /\ GetReturning(2) /\ cth[2].key = "a"
    /\ latest["a"].has
    /\ cth[1].res = latest["a"].value
    /\ cth[1].at > latest["a"].timestamp
    /\ cth[2].at > latest["a"].timestamp + ttl
    /\ cth[2].res = "None"
    /\ ~ttl_cache["a"].has

\* the threads inside a `with self._lock:` block
InsideLock == {t \in Threads : cth[t].pc \notin {"idle", "acquire", "done"}}

\* C22: under any interleaving of get, set and clear from several threads
\* on one Cache the operations take effect one at a time: every get returns
\* absent or the value of the latest set of its key that was neither expired
\* nor cleared, and no operation fails because another thread added or
\* removed the entry in between.
CacheOperationsAreAtomic ==
    /\ Cardinality(InsideLock) <= 1
    /\ \A t \in Threads :
        /\ cth[t].exc = "none"
        /\ GetReturning(t) =>
              \/ cth[t].res = "None"
              \/ /\ latest[cth[t].key].has
                 /\ cth[t].res = latest[cth[t].key].value
                 /\ cth[t].at <= latest[cth[t].key].timestamp + ttl

\* thread 1 waits for the lock while thread 2, inside get, is about to
\* delete the expired entry of the key that thread 1 is going to set
SetWaitsForGet ==
    /\ cth[1].pc = "acquire" /\ cth[1].op = "set"
    /\ cth[2].pc = "get_del" /\ cth[2].key = cth[1].key
    /\ cache_lock = 2

(***************************************************************************)
(* Properties of KeywordManager                                            *)
(***************************************************************************)
\* this step is a call of op that was not cut short by the end of the
\* process
KmCalled(op) ==
    /\ km_res'.n # km_res.n
    /\ km_res'.op = op
    /\ km_res'.exc # "killed"

\* d is the dict old overridden by the keys of the dict new
Overridden(d, old, new) ==
    /\ DOMAIN d = DOMAIN old \cup DOMAIN new
    /\ \A k \in DOMAIN new : d[k] = new[k]
    /\ \A k \in DOMAIN old \ DOMAIN new : d[k] = old[k]

\* C23: for a known keyword k without an agent, the first get_agent(k, m)
\* creates an AgentInfo with status Active and an empty error_history and
\* reports created; every later get_agent(k, m2) reports retrieved, keeps
\* created_at, status and error_history, sets last_accessed, and sets the
\* metadata to the old metadata overridden by the keys of m2; after each
\* call the persisted state, when re-loaded, equals the in-memory table.
GetAgentCreatesThenRetrieves ==
    [][\A k \in KmKeywords :
          KmCalled("get_agent") /\ km_res'.keyword = k
          /\ HasKeyword(km[1].keywords, k) =>
              /\ km_res'.exc = "none"
              /\ k \in DOMAIN km'[1].agents
              /\ k \notin DOMAIN km[1].agents =>
                    /\ km_res'.ret = "created"
                    /\ km'[1].agents[k].status = "Active"
                    /\ km'[1].agents[k].error_history = <<>>
              /\ k \in DOMAIN km[1].agents =>
                    /\ km_res'.ret = "retrieved"
                    /\ km'[1].agents[k].created_at =
                           km[1].agents[k].created_at
                    /\ km'[1].agents[k].status = km[1].agents[k].status
                    /\ km'[1].agents[k].error_history =
                           km[1].agents[k].error_history
                    /\ km'[1].agents[k].last_accessed = km_res'.n
                    /\ Overridden(km'[1].agents[k].metadata.d,
                                  km[1].agents[k].metadata.d,
                                  km_res'.metadata.d)
              /\ km_load_state(km_fs').agents = km'[1].agents]_vars

\* the last call was one of op and told its caller that it had done its work
KmSucceeded(op) ==
    /\ km_res.op = op
    /\ km_res.exc = "none"
    /\ \/ km_res.ret \in {"added", "removed", "created", "retrieved"}
       \/ op = "update_agent_status" /\ km_res.keyword \in DOMAIN km[1].agents

\* two keyword tables hold the same keywords with the same descriptions
SameKeywords(kws1, kws2) ==
    {kws1[i] : i \in 1..Len(kws1)} = {kws2[i] : i \in 1..Len(kws2)}

\* C24: after add_keyword, remove_keyword, get_agent or update_agent_status
\* has returned successfully, a KeywordManager constructed anew from the
\* state file has the same keyword table and the same agent table as the
\* in-memory tables had when the call returned.
SuccessfulCallsArePersisted ==
    \A op \in {"add_keyword", "remove_keyword", "get_agent",
               "update_agent_status"} :
        KmSucceeded(op) =>
            /\ SameKeywords(KeywordManager_init(km_fs).mem.keywords,
                            km[1].keywords)
            /\ KeywordManager_init(km_fs).mem.agents = km[1].agents

\* the number of lower-cased word tokens that the text and the i-th keyword
\* of the store share
SharedTokens(input_text, kws, i) ==
    Cardinality(findall_words(lower(input_text), 1, "")
                \cap findall_words(lower(kws[i]), 1, ""))

\* C25: detect_keyword(text) returns absent when no known keyword shares a
\* lower-cased word token with text, and otherwise a keyword whose token
\* overlap with text is maximal among all known keywords, the first such
\* keyword in the store's iteration order when several tie.
DetectsFirstBestKeyword ==
    km_res.op = "detect_keyword" =>
        LET kws == Keys(km[1].keywords)
            text == km_res.keyword
        IN  IF \A i \in 1..Len(kws) : SharedTokens(text, kws, i) = 0
            THEN ~km_res.found.found
            ELSE /\ km_res.found.found
                 /\ \E i \in 1..Len(kws) :
                       /\ kws[i] = km_res.found.keyword
                       /\ \A j \in 1..Len(kws) :
                             SharedTokens(text, kws, j)
                                 <= SharedTokens(text, kws, i)
                       /\ \A j \in 1..(i - 1) :
                             SharedTokens(text, kws, j)
                                 < SharedTokens(text, kws, i)

\* "ci python" shares one token with python and one with ci/cd, which comes
\* later in the store: python was returned
TieGoesToFirstKeyword ==
    /\ km_res.op = "detect_keyword"
    /\ km_res.keyword = <<"ci", " ", "python">>
    /\ km_res.found = [found |-> TRUE, keyword |-> <<"python">>]
    /\ \E i, j \in 1..Len(km[1].keywords) :
          /\ i < j
          /\ km[1].keywords[i].keyword = <<"python">>
          /\ km[1].keywords[j].keyword = <<"ci", "/", "cd">>

\* an error was handed to update_agent_status: a message that is not empty
ErrorGiven(error) == error \notin {"None", ""}

\* C26: over any sequence of get_agent and update_agent_status calls a
\* keyword's error_history only grows: update_agent_status with an error
\* appends exactly one timestamped entry at the end, update_agent_status
\* without an error and get_agent leave it unchanged, and existing entries
\* are never altered, reordered or removed.
ErrorHistoryOnlyGrows ==
    [][\A k \in DOMAIN km[1].agents :
          KmCalled("get_agent") \/ KmCalled("update_agent_status") =>
              /\ k \in DOMAIN km'[1].agents
              /\ IF /\ km_res'.op = "update_agent_status"
                    /\ km_res'.keyword = k
                    /\ ErrorGiven(km_res'.error)
                 THEN km'[1].agents[k].error_history =
                          Append(km[1].agents[k].error_history,
                                 [timestamp |-> km_res'.n,
                                  error |-> km_res'.error])
                 ELSE km'[1].agents[k].error_history =
                          km[1].agents[k].error_history]_vars

\* two errors were recorded for python and get_agent has then retrieved
\* its agent
TwoErrorsThenRetrieved ==
    /\ km_res.op = "get_agent"
    /\ km_res.keyword = <<"python">>
    /\ km_res.ret = "retrieved"
    /\ Len(km[1].agents[<<"python">>].error_history) = 2

\* the persisted store, the state file or its backup, holds an agent for k
Persisted(fs, k) ==
    \/ fs.state.kind = "json" /\ k \in DOMAIN fs.state.agents
    \/ fs.backup.kind = "json" /\ k \in DOMAIN fs.backup.agents

\* C27: once an AgentInfo exists for a keyword, it stays in the agent table,
\* in memory and in the persisted store across restarts of the
\* KeywordManager, until remove_keyword is called for that keyword; no
\* other operation and no load or construction step deletes it.
AgentsStayUntilRemoved ==
    [][\A k \in KmKeywords :
          ~(km_res'.n # km_res.n /\ km_res'.op = "remove_keyword"
            /\ km_res'.keyword = k) =>
              /\ km[1].alive /\ km'[1].alive /\ k \in DOMAIN km[1].agents =>
                    k \in DOMAIN km'[1].agents
              /\ Persisted(km_fs, k) => Persisted(km_fs', k)]_vars

\* every keyword of the store is lower-case and no two of them are equal
\* after lower-casing
NormalizedStore(kws) ==
    /\ \A i \in 1..Len(kws) : lower(kws[i].keyword) = kws[i].keyword
    /\ \A i, j \in 1..Len(kws) :
          lower(kws[i].keyword) = lower(kws[j].keyword) => i = j

\* C28: after any sequence of add_keyword and remove_keyword calls, every
\* keyword in the keyword store is a normalized lower-case string and no two
\* stored keywords are equal after lower-casing; add_keyword of an already
\* stored keyword is rejected and changes nothing.
KeywordsStayNormalized ==
    [][KmCalled("add_keyword") \/ KmCalled("remove_keyword") =>
          /\ km'[1].alive => NormalizedStore(km'[1].keywords)
          /\ (km_res'.op = "add_keyword"
              /\ HasKeyword(km[1].keywords, km_res'.keyword)) =>
                    /\ km_res'.ret = "exists"
                    /\ km'[1] = km[1]
                    /\ km_fs' = km_fs]_vars

(***************************************************************************)
(* Properties of TriggerMapManager                                         *)
(***************************************************************************)
\* C29: when a key exists both as a static trigger and as a trigger derived
\* from the technology registry, the catalog's entry for that key, and the
\* result of get_trigger for it, is the static TriggerInfo: merging the
\* dynamic triggers never replaces a static entry.
StaticTriggersTakePrecedence ==
    \A key \in TmKeys :
        (/\ tm_built
         /\ statics[key].has
         /\ generate_tech_triggers(registry.technologies)[key].has) =>
              /\ triggers[key] = statics[key]
              /\ tm_res.op = "get_trigger" /\ tm_res.key = key =>
                    tm_res.success /\ tm_res.data = statics[key]

(***************************************************************************)
(* Properties of AgentValidator                                            *)
(***************************************************************************)
\* AgentValidator.validate(code, av_trigger) has returned or raised
AgentValidated == validation # NoValidation /\ av_trigger # NoTriggerInfo

\* no entry of the deny list matches the text
NoDenied(q) ==
    \A i \in 1..Len(forbidden_patterns) : ~re_search(forbidden_patterns[i].re, q)

\* every required structural marker occurs in the text
AllMarkers(q) ==
    \A i \in 1..Len(required_elements) : Contains(q, required_elements[i].element)

\* "import X" or "from X" occurs in the text for every required import X
AllImports(q, required_imports) ==
    \A i \in 1..Len(required_imports) :
        \/ Contains(q, <<"import", " ", required_imports[i]>>)
        \/ Contains(q, <<"from", " ", required_imports[i]>>)

\* C30: AgentValidator.validate(code, trigger) succeeds exactly when code
\* matches no deny-list pattern, contains every required structural marker
\* and, for each name X of trigger.required_imports, contains the text
\* "import X" or "from X"; otherwise it returns, without raising, the failed
\* result of the first failing check in the order security, structure,
\* imports.
ValidateChecksInOrder ==
    AgentValidated =>
        LET q == code.q
            secure == NoDenied(q)
            structured == AllMarkers(q)
            imported == AllImports(q, av_trigger.required_imports)
        IN  /\ validation.exc = "none"
            /\ validation.success <=> (secure /\ structured /\ imported)
            /\ ~secure => validation.details.key = "pattern"
            /\ (secure /\ ~structured) => validation.details.key = "missing"
            /\ (secure /\ structured /\ ~imported) =>
                   validation.details.key = "missing_imports"

(***************************************************************************)
(* Properties of StructureValidator                                        *)
(***************************************************************************)
\* the required elements that do not occur in the text
Absent(q) ==
    {i \in 1..Len(required_elements) : ~Contains(q, required_elements[i].element)}

\* C31: StructureValidator.validate fails exactly when at least one required
\* marker is absent from the code, and the failure lists the description of
\* every absent marker and of no marker that is present.
FailureListsAbsentMarkers ==
    validation # NoValidation =>
        /\ validation.exc = "none"
        /\ ~validation.success <=> Absent(code.q) # {}
        /\ ~validation.success =>
              /\ validation.details.key = "missing"
              /\ {validation.details.val[n] :
                      n \in 1..Len(validation.details.val)}
                    = {required_elements[i].description : i \in Absent(code.q)}

\* a code string with three of the five elements was validated: the failure
\* lists the run method and the parent initialization, in this order
TwoMarkersReported ==
    /\ Absent(code.q) = {3, 5}
    /\ validation # NoValidation
    /\ ~validation.success
    /\ validation.details.val = <<"run method", "parent initialization">>

(***************************************************************************)
(* Properties of retry                                                     *)
(***************************************************************************)
\* a call of the wrapped run is under way / has ended
RunCalled == rt[1].pc \notin {"idle", "done"}

RunEnded == rt[1].pc = "done"

\* the body of run ran at most 3 times in this request, the wrapped
\* _generate_code at most 3 times in this generation, and a call that ended
\* gave its caller a value or an exception
AttemptsBounded ==
    /\ \A l \in Levels : rt[l].invocations <= max_attempts
    /\ RunEnded => rt[1].result.kind \in {"returned", "caught", "other"}

\* C32: every call of run ends with a terminal outcome, given that each
\* call of the language model returns or raises: the language-model call is
\* attempted at most 3 times per generation and the body of run is executed
\* at most 3 times per request.
RunEndsWithinThreeAttempts == []AttemptsBounded /\ (RunCalled ~> RunEnded)

\* a request ended after three bodies of run raised, the last of which made
\* a generation whose three invocations raised as well
ThreeBodiesThreeGenerations ==
    /\ RunEnded
    /\ rt[1].invocations = 3
    /\ rt[1].result = Outcome("caught", 3)
    /\ rt[2].invocations = 3
    /\ rt[2].result = Outcome("caught", 3)

RECURSIVE Pow(_, _)
Pow(base, e) == IF e = 0 THEN 1 ELSE base * Pow(base, e - 1)

\* what the claim says of one wrapper with the parameters par
RetryContract(w, par) ==
    /\ w.invocations <= par.n
    /\ w.pc = "func" =>
          /\ w.attempt = w.invocations - 1
          /\ Len(w.waits) = w.invocations - 1
    /\ (w.pc = "done" /\ w.result.kind = "returned") =>
          /\ w.result.of = w.invocations
          /\ w.attempt = w.invocations - 1
    /\ (w.pc = "done" /\ w.result.kind = "caught") =>
          /\ w.invocations = par.n
          /\ w.result.of = par.n
          /\ Len(w.waits) = par.n - 1
    /\ (w.pc = "done" /\ w.result.kind = "other") =>
          /\ w.result.of = w.invocations
          /\ Len(w.waits) = w.invocations - 1
    /\ w.pc = "done" => w.result.kind \in {"returned", "caught", "other"}
    /\ \A i \in 1..Len(w.waits) : w.waits[i] = par.d * Pow(par.b, i - 1)

\* C33: a function wrapped by retry(max_attempts=n, delay=d, backoff=b) with
\* n >= 1 is invoked until it first returns, at most n times; its first
\* return value is returned with no further invocation; if all n invocations
\* raise a caught exception, the exception of the n-th invocation is raised;
\* the wait before invocation i+1 is d*b^(i-1), no wait follows the n-th
\* failure, and an exception outside the configured types propagates at once
\* without retry.
RetryInvokesUntilFirstReturn ==
    \A l \in Levels : RetryContract(rt[l], rt_par)

\* retry(3, 2, 2): three invocations raised, with waits of 2 and 4 between
\* them, and the exception of the third was raised
ThirdExceptionRaised ==
    /\ rt_par = [n |-> 3, d |-> 2, b |-> 2]
    /\ rt[1].pc = "done"
    /\ rt[1].result = Outcome("caught", 3)
    /\ rt[1].waits = <<2, 4>>

\* the last step constructed a TriggerMapManager over a state file that
\* _save_state had written
ConstructedOverSavedState ==
    /\ tm_ops' # tm_ops
    /\ tm_res'.op = "TriggerMapManager"
    /\ tm_res'.success
    /\ tm_file.exists
    /\ "triggers" \in tm_file.top

\* C34: the trigger table that _save_state persists is what a
\* TriggerMapManager constructed later over the same state directory loads:
\* the same keys, each with an equal TriggerInfo, including the triggers
\* added, updated or removed before the save.
SavedTriggersAreLoaded ==
    [][ConstructedOverSavedState => triggers' = tm_file.triggers]_vars

\* the last step was a call of op on the manager
TmCalled(op) == tm_ops' # tm_ops /\ tm_res'.op = op

\* C35: after any sequence of get_trigger, add_trigger, update_trigger and
\* remove_trigger, a successful get_trigger(k) for a key of the trigger table
\* returns the TriggerInfo currently registered for k, never a value that
\* update_trigger replaced, and after remove_trigger(k) succeeded the lookup
\* cache holds no entry from which get_trigger(k) could return the removed
\* TriggerInfo.
GetTriggerReturnsRegistered ==
    [][/\ (TmCalled("get_trigger") /\ triggers[tm_res'.key].has) =>
              /\ tm_res'.success
              /\ tm_res'.data = triggers[tm_res'.key]
       /\ (TmCalled("remove_trigger") /\ tm_res'.success) =>
              /\ ~triggers'[tm_res'.key].has
              /\ ~trigger_cache'[tm_res'.key].has
              /\ \A key \in TmKeys :
                    trigger_cache'[key].has => trigger_cache'[key] = triggers'[key]
       /\ \A key \in TmKeys :
              (triggers'[key].has /\ trigger_cache'[key].has) =>
                  trigger_cache'[key] = triggers'[key]]_vars

\* get_trigger("python") was answered from the lookup cache with the
\* trigger that update_trigger put in place of the default one
UpdatedTriggerServedFromCache ==
    /\ tm_ops = 4
    /\ tm_res.op = "get_trigger"
    /\ tm_res.key = "python"
    /\ tm_res.source = "cache"
    /\ tm_res.data = TriggerMapInfo("MyAnalyzer", "added by a call", <<"typing">>)
    /\ triggers["python"] = tm_res.data

\* every call that a thread made has returned, and at least one was made
AllThreadCallsReturned ==
    /\ \A t \in Threads : kth[t].pc \in {"idle", "done"}
    /\ \E t \in Threads : kth[t].pc = "done"

\* C36: when several threads call mutating KeywordManager operations on one
\* instance concurrently, once all calls have returned the persisted state
\* file equals the tables in memory: no completed call's effect is missing
\* from the file.
ConcurrentCallsArePersisted ==
    AllThreadCallsReturned =>
        km_fs.state = KmDoc(km[1].keywords,
                            [k \in DOMAIN km[1].agents |->
                                from_dict_to_dict(km[1].agents[k])])

\* this step is a call of a mutating method that the method rejects
KmRejectedCall ==
    /\ km_res'.n # km_res.n
    /\ km_res'.op \in ThreadOps
    /\ km_rejects(km[km_res'.i], km_res'.op, km_res'.keyword)

\* C37: a rejected KeywordManager operation changes nothing: add_keyword
\* with an invalid or already stored keyword, remove_keyword of a missing
\* keyword, get_agent for a keyword not in the keyword table and
\* update_agent_status for a keyword without AgentInfo leave the keyword
\* table, the agent table and the persisted file unchanged.
RejectedCallChangesNothing ==
    [][KmRejectedCall => km' = km /\ km_fs' = km_fs]_vars

\* update_agent_status was rejected for a keyword without agent while
\* another keyword has an agent, after a call that changed the tables
RejectedBesideAgent ==
    /\ km_res.op = "update_agent_status"
    /\ km_res.n = MaxKmOps
    /\ km[1].alive
    /\ km_res.keyword \notin DOMAIN km[1].agents
    /\ DOMAIN km[1].agents # {}

\* C38: in every state a KeywordManager reaches through add_keyword,
\* remove_keyword, get_agent and update_agent_status, every keyword that has
\* an AgentInfo is also present in the keyword table.
AgentsHaveKeywords ==
    \A i \in Managers :
        km[i].alive =>
            \A k \in DOMAIN km[i].agents : HasKeyword(km[i].keywords, k)

\* over the state file that an earlier process left with an agent for
\* "python", get_agent created an agent for "cobol" and remove_keyword then
\* removed "python" together with its agent
AgentRemovedWithKeyword ==
    /\ km[1].alive
    /\ km_res.op = "remove_keyword"
    /\ km_res.ret = "removed"
    /\ km_res.keyword = <<"python">>
    /\ Len(km[1].keywords) > 0
    /\ km[1].keywords[1].keyword = <<"cobol">>
    /\ DOMAIN km[1].agents = {<<"cobol">>}

(***************************************************************************)
(* Properties of the results of run.                                       *)
(***************************************************************************)
\* the last call was a run that returned a result
RunReturned ==
    /\ req.op \in {"DynamicAgentFactoryLLM.run", "DynamicAgentFactory.run"}
    /\ out.exc = "none"

\* the status with which the run reports a generated agent:
\* GenerationResult.status "success", and "active" in DynamicAgentFactory.run
SuccessStatus ==
    IF req.op = "DynamicAgentFactoryLLM.run" THEN "success" ELSE "active"

\* C39: in every result returned by DynamicAgentFactoryLLM.run and
\* DynamicAgentFactory.run, agent_class is non-null exactly when the reported
\* status is the success status, and whenever agent_class is null the
\* generation info has the error status and a non-empty error message.
AgentClassFollowsStatus ==
    RunReturned =>
        /\ (out.agent_class # "None") <=> (out.status = SuccessStatus)
        /\ (out.agent_class = "None") =>
               /\ out.status = "error"
               /\ out.error # ""

\* DynamicAgentFactoryLLM.run returned an error result for a keyword of the
\* catalog after the language model gave valid code
ErrorResultAfterGeneration ==
    /\ RunReturned
    /\ req.op = "DynamicAgentFactoryLLM.run"
    /\ CatalogRequest
    /\ Generated
    /\ out.agent_class = "None"
    /\ out.status = "error"
====
